---- MODULE Spec2Model ----
(***************************************************************************)
(* Model of the distributed web crawler's control plane:                   *)
(*   - MasterNode (src/master/master_node.py): seen/visited sets, the      *)
(*     statistics, crawler heartbeats, the add_urls request handlers, the  *)
(*     process_sqs_results thread and the monitor_tasks thread;            *)
(*   - the two SQS queues the master creates (crawler-tasks and            *)
(*     crawler-results);                                                   *)
(*   - CrawlerNode (src/crawler/crawler_node.py): setup_sqs, get_task,     *)
(*     crawl_url, submit_result and the heartbeat thread. crawl_url is     *)
(*     there twice: as its outcome alone (CrawlAndSubmit), and step by     *)
(*     step with the robots cache, the politeness sleep, the GET, S3 and   *)
(*     the indexer (CanFetch, RobotsRead, Get, SubmitCrawlResult).         *)
(*                                                                         *)
(* The master's threads share seen_urls, stats and the queues without any  *)
(* lock, so an admission (check, send, mark) is modelled as three steps a  *)
(* second thread can interleave with.                                      *)
(*                                                                         *)
(* The queues are standard SQS queues: a receive may return any visible    *)
(* message. A receive and the delete that follows it are one step, and no  *)
(* call to SQS fails.                                                      *)
(***************************************************************************)
EXTENDS Integers, Sequences, FiniteSets, TLC

VARIABLES
    use_sqs,            \* MasterNode.use_sqs
    crawler_use_sqs,    \* CrawlerNode.use_sqs (the --use-sqs flag of the crawlers)
    seen_urls,          \* MasterNode.seen_urls
    visited_urls,       \* MasterNode.visited_urls
    active_tasks,       \* MasterNode.active_tasks (the keys)
    crawler_heartbeats, \* MasterNode.crawler_heartbeats: a function ip -> time
    stats,              \* MasterNode.stats
    task_queue,         \* the SQS queue crawler-tasks: the visible messages' urls
    result_queue,       \* the SQS queue crawler-results: the visible messages
    adm,                \* per master thread: the admission loop it is in
    crawler,            \* per crawler: position in CrawlerNode.run and its locals
    now,                \* time.time(), in seconds
    dispatched,         \* observation only: per url, how often a crawler was handed it
    last_submit,        \* observation only: the last /submit_result request served
    robots_cache,       \* per crawler: RobotsCache.cache, a function domain -> entry
    heartbeat,          \* per crawler: its send_heartbeat thread
    fetch,              \* per crawler: the crawl_url call it is in
    last_get,           \* observation only: per crawler and host, when it last sent a GET
    indexer_docs,       \* the urls the indexer has accepted a document for
    s3_objects,         \* the urls whose content is stored in the S3 bucket
    ix,                 \* IndexerNode.ix: the committed documents of the Whoosh index
    index_lock,         \* IndexerNode.index_lock: the thread that holds it, or None
    ixt,                \* per indexer thread: the request or round it is in
    ix_stats,           \* IndexerNode.stats
    pending_urls_file,  \* the lines of pending_urls.txt
    upstream,           \* whether the crawler API the indexer submits to answers
    seeds,              \* observation only: the seed requests and the accepted posts
    mpi,                \* the MPI master of src/archive, its messages and state file
    construction,       \* a MasterNode.__init__ call that was given seed urls
    simple_index,       \* the SimpleInMemoryIndex of src/indexer_node.py
    mpi_indexer         \* the indexer rank of the MPI program and its messages

vars == <<use_sqs, crawler_use_sqs, seen_urls, visited_urls, active_tasks,
          crawler_heartbeats, stats, task_queue, result_queue, adm, crawler,
          now, dispatched, last_submit, robots_cache, heartbeat, fetch, last_get,
          indexer_docs, s3_objects, ix, index_lock, ixt, ix_stats,
          pending_urls_file, upstream, seeds, mpi, construction, simple_index,
          mpi_indexer>>

\* what the crawl_url steps and the heartbeat threads add to the state
crawl_vars == <<robots_cache, heartbeat, fetch, last_get, indexer_docs, s3_objects>>

\* the state of the indexer node
indexer_vars == <<ix, index_lock, ixt, ix_stats, pending_urls_file, upstream, seeds>>

\* the state of the MPI master
archive_vars == <<mpi>>

\* the constructor call with seeds, the in-memory index and the indexer rank
side_vars == <<construction, simple_index, mpi_indexer>>

\* the nodes beside the master and the crawlers
node_vars == <<indexer_vars, archive_vars, side_vars>>

\* the master and the crawlers
system_vars == <<use_sqs, crawler_use_sqs, seen_urls, visited_urls, active_tasks,
                 crawler_heartbeats, stats, task_queue, result_queue, adm, crawler,
                 now, dispatched, last_submit, crawl_vars>>

-----------------------------------------------------------------------------
(* Bounds of the model *)

\* longest url list of an add_urls request
MaxUrls == 1
\* most links crawl_url extracts from one page
MaxLinks == 2
\* most results waiting in crawler-results (a crawler with a result waits for room)
MaxResults == 1
\* the clock takes at most this many steps of TimeStep seconds, and one of
\* VisibilityTimeout seconds after them
MaxTicks == 3
\* the clock of the crawl steps takes at most this many steps of one second
MaxSeconds == 3
\* most links (a href) on one fetched page
MaxHrefs == 1
\* most result messages that arrive in crawler-results from outside the model's
\* crawlers
MaxArrivals == 2
\* most documents the indexer commits
MaxIndexed == 2
\* most searches the indexer counts
MaxSearches == 1
\* the clock takes single seconds up to this many seconds after cache_timeout
MaxAgedSeconds == 2
\* most seed urls submitted to the indexer
MaxSeeds == 2
\* most posts to /submit that are answered with 200
MaxAccepted == 2
\* "if processed_docs % 10 == 0": the indexer rank reports every 10 documents
ReportEvery == 10
\* longest list of seed urls a MasterNode is constructed with
MaxSeedList == 3
\* most add_document calls on the in-memory index
MaxAdds == 3

(* Program constants *)

\* check_crawler_health(self, timeout=60)
timeout == 60
\* monitor_tasks(master, check_interval=30)
check_interval == 30
\* 'VisibilityTimeout': '300' of the queues the master creates
VisibilityTimeout == 300
\* RobotsCache(cache_timeout=3600)
cache_timeout == 3600
\* crawl_url: time.sleep(1) before the GET
PolitenessSleep == 1
\* run: time.sleep(1) between two tasks
TaskPause == 1
\* send_heartbeat: time.sleep(30)
HeartbeatSleep == 30

\* the clock advances in steps of the monitor's period
TimeStep == check_interval

None == "None"

HttpUrls == {"http://a", "https://b"}
OtherUrls == {"ftp://c"}
\* a second page of host a
PageUrls == {"http://a/p"}
Urls == HttpUrls \cup OtherUrls \cup PageUrls

\* the relative hrefs of a page, one of them with a fragment
Fragment == "#f"
RelHrefs == {"q", "q" \o Fragment}
\* what a relative href in a page of host a or host b is joined to
JoinedUrls == {"http://a/q", "https://b/q"}
FragmentUrls == {u \o Fragment : u \in JoinedUrls}

\* urlparse(url).netloc
Host(url) ==
    IF url \in {"http://a", "http://a/p", "http://a/q"} THEN "a"
    ELSE IF url \in {"https://b", "https://b/q"} THEN "b" ELSE "c"

\* a url without http(s) scheme that was given the prefix 'http://'
PrefixedUrls == {"http://" \o u : u \in OtherUrls}

\* absolute_url.startswith(('http://', 'https://'))
StartsWithHttp(url) ==
    url \in HttpUrls \cup PageUrls \cup PrefixedUrls \cup JoinedUrls \cup FragmentUrls

Handlers == {"h1"}
SqsThread == "sqs"
Threads == Handlers \cup {SqsThread}
Crawlers == {"w1", "w2"}
TaskIds == {"t1"}

\* every list of at most n elements of S
RECURSIVE ListsUpTo(_, _)
ListsUpTo(S, n) ==
    IF n = 0 THEN {<<>>}
    ELSE LET shorter == ListsUpTo(S, n - 1)
         IN shorter \cup {Append(l, x) : l \in {s \in shorter : Len(s) = n - 1}, x \in S}

UrlLists == ListsUpTo(HttpUrls, MaxUrls)
\* crawl_url keeps only the links that start with http:// or https://
ExtractedLists == ListsUpTo(HttpUrls, MaxLinks)

InSeq(x, s) == \E i \in 1..Len(s) : s[i] = x
Count(x, s) == Cardinality({i \in 1..Len(s) : s[i] = x})
RemoveAt(s, i) == SubSeq(s, 1, i - 1) \o SubSeq(s, i + 1, Len(s))

-----------------------------------------------------------------------------
(* MasterNode *)

NoSubmit == [task_id |-> None, url |-> None, success |-> FALSE, extracted_urls |-> <<>>]
IdleAdm == [pc |-> "idle", cur |-> None, rest |-> <<>>]
IdleCrawler == [pc |-> "setup", has_queues |-> FALSE, url |-> None, taken_at |-> 0]
\* crawl_url's return value (success, extracted_urls, error) before it is set
NoReturn == [success |-> FALSE, extracted_urls |-> <<>>, error |-> None]
\* no crawl_url call under way. t0: current_time of can_fetch; refresh: how the
\* fetch of robots.txt ended in this call ("none": no fetch); rules: what the
\* parser consulted holds ("none": no parser consulted); allowed: can_fetch's
\* answer; delay: the seconds of its politeness sleep; wake_at: when the sleep
\* under way ends; got, sent_to_indexer, stored:
\* whether this call sent the GET, posted to the indexer, wrote to S3; ret: the
\* return value
IdleFetch == [t0 |-> 0, refresh |-> "none", stale |-> FALSE, rules |-> "none",
              allowed |-> FALSE,
              delay |-> 0, wake_at |-> 0, got |-> FALSE, sent_to_indexer |-> FALSE,
              stored |-> FALSE, ret |-> NoReturn]
\* the send_heartbeat thread as run() starts it: its first round is due at once.
\* sent, sent_at, delivered: whether it has had a round, and the time and outcome
\* of the last one; after_failure: the last round followed a failed one; during: where the
\* crawl loop was at the last round
NewHeartbeat == [alive |-> TRUE, wake_at |-> 0, sent |-> FALSE, sent_at |-> 0,
                 delivered |-> FALSE, after_failure |-> FALSE, during |-> None]

\* no MasterNode.__init__ call with seed urls has begun
NoConstruction == [pc |-> "none", use_sqs |-> FALSE, given |-> <<>>, seed_urls |-> <<>>,
                   seen_urls |-> {}, task_queue |-> <<>>, has_stats |-> FALSE,
                   urls_queued |-> 0]

\* SimpleInMemoryIndex.__init__: no term, no document (adds and result are
\* observations: the add_document calls so far and the last search's answer)
NewSimpleIndex == [index |-> <<>>, documents |-> <<>>, adds |-> 0, result |-> {}]

\* indexer_process before its loop. inbox: the content messages (tag 2) sent to
\* the rank; to_master: the status messages (tag 99) it has sent to rank 0, which
\* wait there; round: the parity of the master's rounds that found such a message
NewMpiIndexer == [inbox |-> <<>>, processed_docs |-> 0, to_master |-> 0, round |-> 0]

\* MasterNode.__init__ with seed_urls=None, before any thread or request has run.
\* (With a seed the constructor calls add_url_to_queue before self.stats exists
\* and does not return.)
\* the threads of the indexer node: the Flask server's request threads and the
\* connection_monitor thread
IxThreads == {"r1", "r2"}
MonitorThread == "monitor"
IxAll == IxThreads \cup {MonitorThread}

\* a thread of the indexer that has answered nothing yet
NoResponse == [code |-> 0, success |-> FALSE, message |-> None, results |-> {},
               document_count |-> 0]

\* a thread of the indexer between two requests or rounds
IdleIx == [pc |-> "idle", url |-> None, title |-> None, content |-> {},
           query |-> None, max_results |-> 0, read |-> <<>>, failed |-> <<>>,
           submitted |-> 0, reachable |-> FALSE, raised |-> FALSE,
           response |-> NoResponse]

\* MasterNode.__init__ of src/archive: one crawler rank (size 3), nothing saved
MpiCrawlers == {1}
NewMpi == [task_queue |-> <<>>, visited_urls |-> {},
           crawler_status |-> [r \in MpiCrawlers |-> "idle"],
           tasks_assigned |-> 0, tasks_completed |-> 0]

\* crawler_state.json before the first save_state
NoStateFile == [visited_urls |-> {}, queue_size |-> 0, tasks_assigned |-> 0,
                tasks_completed |-> 0]

Init ==
    /\ use_sqs \in BOOLEAN
    /\ crawler_use_sqs \in BOOLEAN
    /\ seen_urls = {}
    /\ visited_urls = {}
    /\ active_tasks = {}
    /\ crawler_heartbeats = [c \in {} |-> 0]
    /\ stats = [urls_queued |-> 0, urls_crawled |-> 0, urls_failed |-> 0,
                active_crawlers |-> 0]
    /\ task_queue = <<>>
    /\ result_queue = <<>>
    /\ adm = [t \in Threads |-> IdleAdm]
    /\ crawler = [c \in Crawlers |-> IdleCrawler]
    /\ now = 0
    /\ dispatched = [u \in Urls \cup JoinedUrls |-> 0]
    /\ last_submit = NoSubmit
    /\ robots_cache = [c \in Crawlers |-> [d \in {} |-> 0]]
    /\ heartbeat = [c \in Crawlers |-> NewHeartbeat]
    /\ fetch = [c \in Crawlers |-> IdleFetch]
    /\ last_get = [c \in Crawlers |-> [d \in {} |-> 0]]
    /\ indexer_docs = {}
    /\ s3_objects = {}
    /\ ix = <<>>
    /\ index_lock = None
    /\ ixt = [t \in IxAll |-> IdleIx]
    /\ ix_stats = [pages_indexed |-> 0, searches_performed |-> 0,
                   seed_urls_submitted |-> 0, pending_urls |-> 0]
    /\ pending_urls_file = [exists |-> FALSE, lines |-> <<>>]
    /\ upstream = FALSE
    /\ seeds = [calls |-> 0, accepted |-> <<>>]
    /\ mpi = [master |-> NewMpi, phase |-> "start",
              to_crawler |-> [r \in MpiCrawlers |-> <<>>], to_master |-> <<>>,
              state_file |-> NoStateFile, saved |-> FALSE, queue_at_save |-> <<>>]
    /\ construction = NoConstruction
    /\ simple_index = NewSimpleIndex
    /\ mpi_indexer = NewMpiIndexer

\* self.crawler_heartbeats[crawler_ip] = time.time()
RecordHeartbeat(heartbeats, crawler_ip, t) ==
    [c \in DOMAIN heartbeats \cup {crawler_ip} |->
        IF c = crawler_ip THEN t ELSE heartbeats[c]]

\* add_url_to_queue: the message sent to crawler-tasks (only when use_sqs)
SendTask(queue, sqs, url) == IF sqs THEN Append(queue, url) ELSE queue

\* add_url_to_queue: self.stats["urls_queued"] += 1
CountQueued(st) == [st EXCEPT !.urls_queued = @ + 1]

\* the loop "for url in urls: if url not in self.seen_urls:" up to the first url
\* that passes the test
RECURSIVE SkipSeen(_, _)
SkipSeen(seen, urls) ==
    IF urls = <<>> THEN <<>>
    ELSE IF Head(urls) \in seen THEN SkipSeen(seen, Tail(urls))
    ELSE urls

\* a thread's admission loop over urls: where it stands after the membership tests
\* that find the next url to add
NextAdmission(seen, urls) ==
    LET left == SkipSeen(seen, urls)
    IN IF left = <<>> THEN IdleAdm
       ELSE [pc |-> "send", cur |-> Head(left), rest |-> Tail(left)]

\* POST /add_urls -> MasterNode.add_urls(urls), in request handler thread h
AddUrls(h, urls) ==
    /\ adm[h].pc = "idle"
    /\ adm' = [adm EXCEPT ![h] = NextAdmission(seen_urls, urls)]
    /\ UNCHANGED <<use_sqs, crawler_use_sqs, seen_urls, visited_urls, active_tasks,
                   crawler_heartbeats, stats, task_queue, result_queue, crawler,
                   now, dispatched, last_submit,
                   crawl_vars, node_vars>>

\* self.add_url_to_queue(url) of an admission loop, in thread t
AdmitSend(t) ==
    /\ adm[t].pc = "send"
    /\ task_queue' = SendTask(task_queue, use_sqs, adm[t].cur)
    /\ stats' = CountQueued(stats)
    /\ adm' = [adm EXCEPT ![t].pc = "mark"]
    /\ UNCHANGED <<use_sqs, crawler_use_sqs, seen_urls, visited_urls, active_tasks,
                   crawler_heartbeats, result_queue, crawler, now, dispatched, last_submit,
                   crawl_vars, node_vars>>

\* self.seen_urls.add(url) of an admission loop, in thread t, and the loop's
\* membership tests up to the next url to add
AdmitMark(t) ==
    /\ adm[t].pc = "mark"
    /\ seen_urls' = seen_urls \cup {adm[t].cur}
    /\ adm' = [adm EXCEPT ![t] = NextAdmission(seen_urls', adm[t].rest)]
    /\ UNCHANGED <<use_sqs, crawler_use_sqs, visited_urls, active_tasks,
                   crawler_heartbeats, stats, task_queue, result_queue, crawler,
                   now, dispatched, last_submit,
                   crawl_vars, node_vars>>

\* a set of visited urls that holds the last url only
VisitedReplaced(visited, url) == {url}

\* "self.visited_urls.add(url)"
Visited(visited, url) == visited \cup {url}

\* one message of process_sqs_results: heartbeat, then the success or the failure
\* branch up to the first link to add. The message is received (and so hidden from
\* other receivers) here and deleted when the loop over its links ends.
ProcessSqsResult(i) ==
    /\ use_sqs
    /\ adm[SqsThread].pc = "idle"
    /\ i \in 1..Len(result_queue)
    /\ LET msg == result_queue[i] IN
        /\ result_queue' = RemoveAt(result_queue, i)
        /\ crawler_heartbeats' = RecordHeartbeat(crawler_heartbeats, msg.crawler_ip, now)
        /\ IF msg.success
           THEN /\ visited_urls' = Visited(visited_urls, msg.url)
                /\ stats' = [stats EXCEPT !.urls_crawled = @ + 1]
                /\ adm' = [adm EXCEPT ![SqsThread] =
                              NextAdmission(seen_urls, msg.extracted_urls)]
           ELSE /\ stats' = [stats EXCEPT !.urls_failed = @ + 1]
                /\ UNCHANGED <<visited_urls, adm>>
    /\ UNCHANGED <<use_sqs, crawler_use_sqs, seen_urls, active_tasks, task_queue,
                   crawler, now, dispatched, last_submit,
                   crawl_vars, node_vars>>

\* a message arrives in crawler-results: process_sqs_results takes url, success,
\* extracted_urls and crawler_ip from the body as they come, whoever sent it
ResultArrives(crawler_ip, url, success, extracted_urls) ==
    /\ Len(result_queue) < MaxResults
    /\ stats.urls_crawled + stats.urls_failed + Len(result_queue) < MaxArrivals
    /\ result_queue' = Append(result_queue,
            [url |-> url, success |-> success, extracted_urls |-> extracted_urls,
             crawler_ip |-> crawler_ip])
    /\ UNCHANGED <<use_sqs, crawler_use_sqs, seen_urls, visited_urls, active_tasks,
                   crawler_heartbeats, stats, task_queue, adm, crawler, now,
                   dispatched, last_submit, crawl_vars, node_vars>>

\* the links a result adds, in order: the state of (seen, queue, stats) after
\* "for new_url in extracted_urls: if new_url not in self.seen_urls: ..."
RECURSIVE AdmitAll(_, _, _, _, _)
AdmitAll(seen, queue, st, sqs, urls) ==
    IF urls = <<>> THEN [seen |-> seen, queue |-> queue, stats |-> st]
    ELSE IF Head(urls) \in seen THEN AdmitAll(seen, queue, st, sqs, Tail(urls))
    ELSE AdmitAll(seen \cup {Head(urls)}, SendTask(queue, sqs, Head(urls)),
                  CountQueued(st), sqs, Tail(urls))

\* a master that handles a result whatever its task id is: what C11 rules out
ProcessAnyTaskId(task_id, url, success, extracted_urls) ==
    /\ active_tasks' = active_tasks \ {task_id}
    /\ IF success
       THEN LET st == [stats EXCEPT !.urls_crawled = @ + 1]
                r == AdmitAll(seen_urls, task_queue, st, use_sqs, extracted_urls)
            IN /\ visited_urls' = Visited(visited_urls, url)
               /\ seen_urls' = r.seen
               /\ task_queue' = r.queue
               /\ stats' = r.stats
       ELSE /\ stats' = [stats EXCEPT !.urls_failed = @ + 1]
            /\ UNCHANGED <<visited_urls, seen_urls, task_queue>>

\* POST /submit_result -> MasterNode.process_crawl_result
ProcessCrawlResult(task_id, url, success, extracted_urls) ==
    /\ IF task_id \in active_tasks
       THEN /\ active_tasks' = active_tasks \ {task_id}
            /\ IF success
               THEN LET st == [stats EXCEPT !.urls_crawled = @ + 1]
                        r == AdmitAll(seen_urls, task_queue, st, use_sqs, extracted_urls)
                    IN /\ visited_urls' = Visited(visited_urls, url)
                       /\ seen_urls' = r.seen
                       /\ task_queue' = r.queue
                       /\ stats' = r.stats
               ELSE /\ stats' = [stats EXCEPT !.urls_failed = @ + 1]
                    /\ UNCHANGED <<visited_urls, seen_urls, task_queue>>
       ELSE UNCHANGED <<active_tasks, visited_urls, seen_urls, task_queue, stats>>

\* POST /submit_result from a client of the API: the route's call of
\* process_crawl_result
SubmitResult(task_id, url, success, extracted_urls) ==
    /\ ProcessCrawlResult(task_id, url, success, extracted_urls)
    /\ last_submit' = [task_id |-> task_id, url |-> url, success |-> success,
                       extracted_urls |-> extracted_urls]
    /\ UNCHANGED <<use_sqs, crawler_use_sqs, crawler_heartbeats, result_queue, adm,
                   crawler, now, dispatched,
                   crawl_vars, node_vars>>

\* a health check that counts a heartbeat exactly timeout seconds old as dead:
\* what C14 rules out
AliveBeforeTimeout(last_heartbeat, current_time) == current_time - last_heartbeat < timeout

\* check_crawler_health: whether a recorded heartbeat counts as alive
Alive(last_heartbeat, current_time) == ~(current_time - last_heartbeat > timeout)

\* check_crawler_health: the number it returns and stores
ActiveCrawlers(heartbeats, current_time) ==
    Cardinality({c \in DOMAIN heartbeats : Alive(heartbeats[c], current_time)})

\* check_crawler_health
CheckCrawlerHealth ==
    /\ stats' = [stats EXCEPT !.active_crawlers = ActiveCrawlers(crawler_heartbeats, now)]
    /\ UNCHANGED <<use_sqs, crawler_use_sqs, seen_urls, visited_urls, active_tasks,
                   crawler_heartbeats, task_queue, result_queue, adm, crawler,
                   now, dispatched, last_submit,
                   crawl_vars, node_vars>>

\* one round of the monitor_tasks thread
MonitorTasks == CheckCrawlerHealth

\* GET /status -> get_status, which stores check_crawler_health's count
GetStatus == CheckCrawlerHealth

\* MasterNode.assign_task: whether its answer is {"status": "use_sqs", ...} with the
\* queue urls; otherwise it is None, which the route turns into no_task. No answer
\* carries a task_id.
AssignTaskGivesQueues(sqs) == sqs

\* time passes: d seconds
Tick(d) ==
    /\ \/ d = TimeStep /\ now < MaxTicks * TimeStep
       \/ d = VisibilityTimeout /\ now < VisibilityTimeout
    /\ now' = now + d
    /\ UNCHANGED <<use_sqs, crawler_use_sqs, seen_urls, visited_urls, active_tasks,
                   crawler_heartbeats, stats, task_queue, result_queue, adm, crawler,
                   dispatched, last_submit,
                   crawl_vars, node_vars>>

-----------------------------------------------------------------------------
(* CrawlerNode *)

UsesSqs(c) == crawler_use_sqs /\ crawler[c].has_queues

\* the start of CrawlerNode.run: "if self.use_sqs: self.setup_sqs()", which asks
\* /assign_task for the queue urls
SetupSqs(c) ==
    /\ crawler[c].pc = "setup"
    /\ IF crawler_use_sqs
       THEN /\ crawler_heartbeats' = RecordHeartbeat(crawler_heartbeats, c, now)
            /\ crawler' = [crawler EXCEPT ![c].pc = "get_task",
                                          ![c].has_queues = AssignTaskGivesQueues(use_sqs)]
       ELSE /\ crawler' = [crawler EXCEPT ![c].pc = "get_task"]
            /\ UNCHANGED crawler_heartbeats
    /\ UNCHANGED <<use_sqs, crawler_use_sqs, seen_urls, visited_urls, active_tasks,
                   stats, task_queue, result_queue, adm, now, dispatched, last_submit,
                   crawl_vars, node_vars>>

\* get_task_from_sqs with a message to receive: the message is received and
\* deleted, and its url is the task. (Without a message it returns None and the
\* loop sleeps: no change of state.)
GetTaskFromSqs(c, i) ==
    /\ crawler[c].pc = "get_task"
    /\ UsesSqs(c)
    /\ i \in 1..Len(task_queue)
    /\ task_queue' = RemoveAt(task_queue, i)
    /\ crawler' = [crawler EXCEPT ![c].pc = "crawl", ![c].url = task_queue[i],
                                  ![c].taken_at = now]
    /\ dispatched' = [dispatched EXCEPT ![task_queue[i]] = @ + 1]
    /\ UNCHANGED <<use_sqs, crawler_use_sqs, seen_urls, visited_urls, active_tasks,
                   crawler_heartbeats, stats, result_queue, adm, now, last_submit,
                   crawl_vars, node_vars>>

\* get_task without SQS: POST /assign_task. The master records a heartbeat; its
\* answer holds no task_id, so get_task returns None and the loop sleeps.
GetTaskDirect(c) ==
    /\ crawler[c].pc = "get_task"
    /\ ~UsesSqs(c)
    /\ crawler_heartbeats' = RecordHeartbeat(crawler_heartbeats, c, now)
    /\ UNCHANGED <<use_sqs, crawler_use_sqs, seen_urls, visited_urls, active_tasks,
                   stats, task_queue, result_queue, adm, crawler, now, dispatched, last_submit,
                   crawl_vars, node_vars>>

\* a result message that reports success whatever crawl_url returned
ResultAlwaysSuccess(c, url, success, extracted_urls) ==
    [url |-> url, success |-> TRUE, extracted_urls |-> extracted_urls,
     crawler_ip |-> c]

\* submit_result_to_sqs: the message sent to crawler-results
ResultMessage(c, url, success, extracted_urls) ==
    [url |-> url, success |-> success, extracted_urls |-> extracted_urls,
     crawler_ip |-> c]

\* crawl_url (its outcome: success with the http(s) links of the page, or failure
\* with no links) followed by submit_result, for the task crawler c holds. What
\* the call does to the robots cache, S3 and the indexer is left to the steps
\* CanFetch, RobotsRead and Get.
CrawlAndSubmit(c, success, extracted_urls) ==
    /\ crawler[c].pc = "crawl"
    /\ success \/ extracted_urls = <<>>
    /\ IF UsesSqs(c)
       THEN /\ Len(result_queue) < MaxResults
            /\ result_queue' = Append(result_queue,
                    ResultMessage(c, crawler[c].url, success, extracted_urls))
            /\ UNCHANGED <<active_tasks, visited_urls, seen_urls, task_queue, stats>>
       ELSE /\ \E task_id \in TaskIds :
                    ProcessCrawlResult(task_id, crawler[c].url, success, extracted_urls)
            /\ UNCHANGED result_queue
    /\ crawler' = [crawler EXCEPT ![c].pc = "get_task", ![c].url = None]
    /\ UNCHANGED <<use_sqs, crawler_use_sqs, crawler_heartbeats, adm, now, dispatched, last_submit,
                   crawl_vars, node_vars>>

\* one round of the send_heartbeat thread: POST /heartbeat
SendHeartbeat(c) ==
    /\ crawler[c].pc # "stopped"
    /\ crawler_heartbeats' = RecordHeartbeat(crawler_heartbeats, c, now)
    /\ UNCHANGED <<use_sqs, crawler_use_sqs, seen_urls, visited_urls, active_tasks,
                   stats, task_queue, result_queue, adm, crawler, now, dispatched, last_submit,
                   crawl_vars, node_vars>>

\* the crawler process dies (with the task it holds, if any)
Stop(c) ==
    /\ crawler[c].pc # "stopped"
    /\ crawler' = [crawler EXCEPT ![c].pc = "stopped"]
    /\ UNCHANGED <<use_sqs, crawler_use_sqs, seen_urls, visited_urls, active_tasks,
                   crawler_heartbeats, stats, task_queue, result_queue, adm, now, dispatched, last_submit,
                   crawl_vars, node_vars>>

-----------------------------------------------------------------------------
(* crawl_url and the run loop around it, step by step *)

\* the variables of the master and the queues' observation that no step of
\* crawl_url touches
master_vars == <<use_sqs, crawler_use_sqs, adm, dispatched, last_submit>>

\* d[k] = v for a Python dict d given as a function
Put(d, k, v) == [x \in DOMAIN d \cup {k} |-> IF x = k THEN v ELSE d[x]]

\* what a fetch of robots.txt can end in: the file read and parsed (its rules for
\* the crawler's urls and its Crawl-delay, 0 when it has none; a 401/403 reads as
\* disallow and another 4xx as allow), a status >= 500 (RobotFileParser.read
\* swallows it and leaves the parser unread), or an exception (a network error)
RobotsDelays == {0, 3}
RobotsOutcomes ==
    {[kind |-> "read", rules |-> "allow", crawl_delay |-> d] : d \in RobotsDelays}
    \cup {[kind |-> "read", rules |-> "disallow", crawl_delay |-> 0],
          [kind |-> "http5xx", rules |-> "unread", crawl_delay |-> 0],
          [kind |-> "error", rules |-> "none", crawl_delay |-> 0]}

\* a cache whose entries expire a second early: what C30 rules out
ExpiresAtTimeout(cache, domain, current_time) ==
    \/ domain \notin DOMAIN cache
    \/ current_time - cache[domain].timestamp >= cache_timeout

\* "domain not in self.cache or (current_time - self.cache[domain][1]) > self.cache_timeout"
NeedsRefresh(cache, domain, current_time) ==
    \/ domain \notin DOMAIN cache
    \/ current_time - cache[domain].timestamp > cache_timeout

\* a parser that lets every url through: what C16 rules out
ParserAllowsAll(rules) == TRUE

\* parser.can_fetch(user_agent, url): an unread parser allows nothing
ParserCanFetch(rules) == rules = "allow"

\* crawl_url's "return False, [], 'Disallowed by robots.txt'"
DisallowedReturn ==
    [success |-> FALSE, extracted_urls |-> <<>>, error |-> "Disallowed by robots.txt"]

\* crawl_url after can_fetch has answered: on False it returns, on True it starts
\* the politeness sleep
AfterCanFetch(c, refresh, rules, allowed) ==
    /\ crawler' = [crawler EXCEPT ![c].pc = IF allowed THEN "fetch" ELSE "submit"]
    /\ fetch' = [fetch EXCEPT ![c] =
                    [IdleFetch EXCEPT !.t0 = IF refresh = "none" THEN now ELSE fetch[c].t0,
                                      !.refresh = refresh,
                                      !.stale = fetch[c].stale,
                                      !.rules = rules,
                                      !.allowed = allowed,
                                      !.delay = IF allowed THEN PolitenessSleep ELSE 0,
                                      !.wake_at = IF allowed THEN now + PolitenessSleep ELSE 0,
                                      !.ret = IF allowed THEN NoReturn ELSE DisallowedReturn]]

\* crawl_url calls can_fetch: with a fresh cache entry the cached parser answers;
\* otherwise the fetch of robots.txt starts
CanFetch(c) ==
    /\ crawler[c].pc = "crawl"
    /\ LET domain == Host(crawler[c].url) IN
        IF NeedsRefresh(robots_cache[c], domain, now)
        THEN /\ crawler' = [crawler EXCEPT ![c].pc = "robots_read"]
             /\ fetch' = [fetch EXCEPT ![c] =
                            [IdleFetch EXCEPT !.t0 = now,
                                              !.stale = domain \in DOMAIN robots_cache[c]]]
        ELSE AfterCanFetch(c, "none", robots_cache[c][domain].rules,
                           ParserCanFetch(robots_cache[c][domain].rules))
    /\ UNCHANGED <<node_vars, master_vars, seen_urls, visited_urls, active_tasks,
                   crawler_heartbeats, stats, task_queue, result_queue, now,
                   robots_cache, heartbeat, last_get, indexer_docs, s3_objects>>

\* the fetch of robots.txt ends: on an exception can_fetch returns True and caches
\* nothing; otherwise the parser is cached under the time can_fetch began and
\* answers
RobotsRead(c, outcome) ==
    /\ crawler[c].pc = "robots_read"
    /\ IF outcome.kind = "error"
       THEN /\ AfterCanFetch(c, "error", "none", TRUE)
            /\ UNCHANGED robots_cache
       ELSE /\ robots_cache' = [robots_cache EXCEPT ![c] =
                    Put(@, Host(crawler[c].url),
                        [rules |-> outcome.rules, crawl_delay |-> outcome.crawl_delay,
                         timestamp |-> fetch[c].t0])]
            /\ AfterCanFetch(c, outcome.kind, outcome.rules, ParserCanFetch(outcome.rules))
    /\ UNCHANGED <<node_vars, master_vars, seen_urls, visited_urls, active_tasks,
                   crawler_heartbeats, stats, task_queue, result_queue, now,
                   heartbeat, last_get, indexer_docs, s3_objects>>

\* the url up to its last "/", which urljoin puts before a relative href
Dir(base) ==
    IF base \in {"http://a", "http://a/p"} THEN "http://a/"
    ELSE IF base = "https://b" THEN "https://b/" ELSE base \o "/"

\* urljoin(base, href): an absolute href as it is, a relative one in the base's
\* directory
UrlJoin(base, href) == IF href \in RelHrefs THEN Dir(base) \o href ELSE href

\* absolute_url.split('#')[0]
RemoveFragment(absolute_url) ==
    IF \E u \in JoinedUrls : absolute_url = u \o Fragment
    THEN CHOOSE u \in JoinedUrls : absolute_url = u \o Fragment
    ELSE absolute_url

\* the links crawl_url keeps of the hrefs of a page: each is joined with base,
\* loses its fragment and is kept if it starts with http:// or https://
RECURSIVE ExtractUrls(_, _)
ExtractUrls(base, hrefs) ==
    IF hrefs = <<>> THEN <<>>
    ELSE LET absolute_url == RemoveFragment(UrlJoin(base, Head(hrefs))) IN
         IF StartsWithHttp(absolute_url)
         THEN <<absolute_url>> \o ExtractUrls(base, Tail(hrefs))
         ELSE ExtractUrls(base, Tail(hrefs))

\* the url a GET ends at: the requested url, or after a redirect the root of
\* host b
FinalUrls(url) == {url, "https://b"}

\* the hrefs of a page, all absolute
Hrefs == ListsUpTo(PageUrls \cup OtherUrls, MaxHrefs)

\* what the GET of a page can end in
GetOutcomes == {"200", "http_error", "request_error"}

\* crawl_url once the politeness sleep is over: the GET, which follows redirects
\* to final_url (response.url, which crawl_url does not read); with status 200
\* the links, the S3 objects and the post to the indexer (whose failure is only
\* logged), and the return of True with the links; otherwise the return of False
GetRedirected(c, outcome, final_url, hrefs, index_ok) ==
    /\ crawler[c].pc = "fetch"
    /\ final_url \in FinalUrls(crawler[c].url)
    /\ now >= fetch[c].wake_at
    /\ outcome = "200" \/ (hrefs = <<>> /\ ~index_ok)
    /\ last_get' = [last_get EXCEPT ![c] = Put(@, Host(crawler[c].url), now)]
    /\ crawler' = [crawler EXCEPT ![c].pc = "submit"]
    /\ IF outcome = "200"
       THEN /\ fetch' = [fetch EXCEPT ![c].got = TRUE, ![c].stored = TRUE,
                                      ![c].sent_to_indexer = TRUE,
                                      ![c].ret = [success |-> TRUE,
                                                  extracted_urls |->
                                                      ExtractUrls(crawler[c].url, hrefs),
                                                  error |-> None]]
            /\ s3_objects' = s3_objects \cup {crawler[c].url}
            /\ indexer_docs' = IF index_ok THEN indexer_docs \cup {crawler[c].url}
                               ELSE indexer_docs
       ELSE /\ fetch' = [fetch EXCEPT ![c].got = TRUE,
                                      ![c].ret = [success |-> FALSE,
                                                  extracted_urls |-> <<>>,
                                                  error |-> outcome]]
            /\ UNCHANGED <<s3_objects, indexer_docs>>
    /\ UNCHANGED <<node_vars, master_vars, seen_urls, visited_urls, active_tasks,
                   crawler_heartbeats, stats, task_queue, result_queue, now,
                   robots_cache, heartbeat>>

\* the GET of a page that is answered without a redirect
Get(c, outcome, hrefs, index_ok) ==
    GetRedirected(c, outcome, crawler[c].url, hrefs, index_ok)

\* run: submit_result with what crawl_url returned, then the pause before the
\* next task begins
SubmitCrawlResult(c) ==
    /\ crawler[c].pc = "submit"
    /\ IF UsesSqs(c)
       THEN /\ Len(result_queue) < MaxResults
            /\ result_queue' = Append(result_queue,
                    ResultMessage(c, crawler[c].url, fetch[c].ret.success,
                                  fetch[c].ret.extracted_urls))
            /\ UNCHANGED <<active_tasks, visited_urls, seen_urls, task_queue, stats>>
       ELSE /\ \E task_id \in TaskIds :
                    ProcessCrawlResult(task_id, crawler[c].url, fetch[c].ret.success,
                                       fetch[c].ret.extracted_urls)
            /\ UNCHANGED result_queue
    /\ crawler' = [crawler EXCEPT ![c].pc = "pause", ![c].url = None]
    /\ fetch' = [fetch EXCEPT ![c] = [IdleFetch EXCEPT !.wake_at = now + TaskPause]]
    /\ UNCHANGED <<node_vars, master_vars, crawler_heartbeats, now, robots_cache, heartbeat,
                   last_get, indexer_docs, s3_objects>>

\* run: the pause is over, the loop is back at get_task
PauseOver(c) ==
    /\ crawler[c].pc = "pause"
    /\ now >= fetch[c].wake_at
    /\ crawler' = [crawler EXCEPT ![c].pc = "get_task"]
    /\ UNCHANGED <<node_vars, master_vars, seen_urls, visited_urls, active_tasks,
                   crawler_heartbeats, stats, task_queue, result_queue, now,
                   robots_cache, heartbeat, fetch, last_get, indexer_docs, s3_objects>>

\* a heartbeat thread that ends with its first failed send: what C15 rules out
EndsOnFailedSend(h, delivered, t, at) ==
    [alive |-> delivered, wake_at |-> t + HeartbeatSleep, sent |-> TRUE, sent_at |-> t,
     delivered |-> delivered, after_failure |-> h.sent /\ ~h.delivered, during |-> at]

\* the send_heartbeat thread after a round at time t: whether or not the post was
\* delivered (an exception is logged), it sleeps and goes round again
AfterHeartbeat(h, delivered, t, at) ==
    [alive |-> TRUE, wake_at |-> t + HeartbeatSleep, sent |-> TRUE, sent_at |-> t,
     delivered |-> delivered, after_failure |-> h.sent /\ ~h.delivered, during |-> at]

\* one round of the send_heartbeat thread with its sleep: "while self.running",
\* POST /heartbeat (which the master records if it arrives), time.sleep(30).
\* Nothing in it looks at the crawl loop.
HeartbeatRound(c, delivered) ==
    /\ crawler[c].pc # "stopped"
    /\ heartbeat[c].alive
    /\ now >= heartbeat[c].wake_at
    /\ crawler_heartbeats' = IF delivered
                             THEN RecordHeartbeat(crawler_heartbeats, c, now)
                             ELSE crawler_heartbeats
    /\ heartbeat' = [heartbeat EXCEPT ![c] =
                        AfterHeartbeat(@, delivered, now, crawler[c].pc)]
    /\ UNCHANGED <<node_vars, master_vars, seen_urls, visited_urls, active_tasks, stats,
                   task_queue, result_queue, crawler, now, robots_cache, fetch,
                   last_get, indexer_docs, s3_objects>>

\* one second passes
TickSecond ==
    /\ now < MaxSeconds
    /\ now' = now + 1
    /\ UNCHANGED <<node_vars, master_vars, seen_urls, visited_urls, active_tasks,
                   crawler_heartbeats, stats, task_queue, result_queue, crawler,
                   crawl_vars>>

\* the clock around the age at which a robots.txt entry expires: one step to a
\* second before cache_timeout, and single seconds from there
TickAged ==
    /\ \/ now < cache_timeout - 1 /\ now' = now + (cache_timeout - 1)
       \/ /\ now >= cache_timeout - 1
          /\ now < cache_timeout + MaxAgedSeconds
          /\ now' = now + 1
    /\ UNCHANGED <<node_vars, master_vars, seen_urls, visited_urls, active_tasks,
                   crawler_heartbeats, stats, task_queue, result_queue, crawler,
                   crawl_vars>>

-----------------------------------------------------------------------------
(* IndexerNode: the index (src/indexer/indexer_node.py) *)

\* the words of titles, contents and queries; a content is the set of its words
Terms == {"x", "y"}
Titles == {"t"}
Contents == {{"x"}, {"y"}}
IndexUrls == {"http://a", "https://b"}
\* the q of a search request: a word, or nothing
Queries == Terms \cup {""}
\* the max of a search request (10 when the request names none)
DefaultMax == 10
MaxValues == {1, DefaultMax}

\* a lock that lets every thread in: what C24 rules out
LockIgnored(lock) == TRUE

\* "with self.index_lock" can enter: no thread holds the lock
LockFree(lock) == lock = None

\* writer.add_document: the document is added whatever the index holds
AddWithoutDelete(docs, doc) == Append(docs, doc)

\* writer.update_document(url=url, ...): url is the unique field of the schema, so
\* the documents with this url are deleted and the new one is added
UpdateDocument(docs, doc) == Append(SelectSeq(docs, LAMBDA d : d.url # doc.url), doc)

\* the words a document is found by (the TEXT fields title and content)
Words(doc) == doc.content \cup {doc.title}

\* the posting lists of the index: per word, the urls of the documents that hold it
Postings(docs) ==
    [w \in Terms \cup Titles |->
        {docs[i].url : i \in {j \in 1..Len(docs) : w \in Words(docs[j])}}]

\* searcher.doc_count()
DocCount(docs) == Len(docs)

\* the stored urls that match a query over title and content
Hits(docs, query) == {docs[i].url : i \in {j \in 1..Len(docs) : query \in Words(docs[j])}}

\* searcher.search(q, limit=max_results): the best max_results hits (which ones
\* is the scorer's choice)
ResultSets(docs, query, max_results) ==
    {r \in SUBSET Hits(docs, query) :
        Cardinality(r) = IF Cardinality(Hits(docs, query)) < max_results
                         THEN Cardinality(Hits(docs, query)) ELSE max_results}

ix_other == <<pending_urls_file, upstream, seeds>>

\* POST /index: 400 without url or content; otherwise add_document enters the
\* lock and opens the writer
IndexRequest(t, url, title, content) ==
    /\ ixt[t].pc = "idle"
    /\ IF url = "" \/ content = {}
       THEN /\ ixt' = [ixt EXCEPT ![t] = [IdleIx EXCEPT !.response.code = 400]]
            /\ UNCHANGED index_lock
       ELSE /\ LockFree(index_lock)
            /\ ix_stats.pages_indexed < MaxIndexed
            /\ index_lock' = t
            /\ ixt' = [ixt EXCEPT ![t] = [IdleIx EXCEPT !.pc = "writing", !.url = url,
                                                       !.title = title,
                                                       !.content = content]]
    /\ UNCHANGED <<system_vars, archive_vars, side_vars, ix_other, ix, ix_stats>>

\* add_document with the writer open: update_document and commit, or an exception
\* and writer.cancel(); the lock is left and the route answers {"success": ...}
AddDocumentEnd(t, committed) ==
    /\ ixt[t].pc = "writing"
    /\ IF committed
       THEN /\ ix' = UpdateDocument(ix, [url |-> ixt[t].url, title |-> ixt[t].title,
                                         content |-> ixt[t].content, crawl_date |-> now])
            /\ ix_stats' = [ix_stats EXCEPT !.pages_indexed = @ + 1]
       ELSE UNCHANGED <<ix, ix_stats>>
    /\ index_lock' = None
    /\ ixt' = [ixt EXCEPT ![t].pc = "idle", ![t].response.code = 200,
                          ![t].response.success = committed]
    /\ UNCHANGED <<system_vars, archive_vars, side_vars, ix_other>>

\* GET /search: 400 without q; otherwise search counts the request and reaches
\* "with self.index_lock"
SearchRequest(t, query, max_results) ==
    /\ ixt[t].pc = "idle"
    /\ IF query = ""
       THEN /\ ixt' = [ixt EXCEPT ![t] = [IdleIx EXCEPT !.response.code = 400]]
            /\ UNCHANGED ix_stats
       ELSE /\ ix_stats.searches_performed < MaxSearches
            /\ ix_stats' = [ix_stats EXCEPT !.searches_performed = @ + 1]
            /\ ixt' = [ixt EXCEPT ![t] = [IdleIx EXCEPT !.pc = "search_wait",
                                                       !.query = query,
                                                       !.max_results = max_results]]
    /\ UNCHANGED <<system_vars, archive_vars, side_vars, ix_other, ix, index_lock>>

\* search enters the lock
SearchAcquire(t) ==
    /\ ixt[t].pc = "search_wait"
    /\ LockFree(index_lock)
    /\ index_lock' = t
    /\ ixt' = [ixt EXCEPT ![t].pc = "searching"]
    /\ UNCHANGED <<system_vars, archive_vars, side_vars, ix_other, ix, ix_stats>>

\* search inside the lock: the query is parsed and run; an exception of either is
\* logged and search returns []; the route answers {"results": ...}
SearchEnd(t, raised, results) ==
    /\ ixt[t].pc = "searching"
    /\ results \in IF raised THEN {{}}
                   ELSE ResultSets(ix, ixt[t].query, ixt[t].max_results)
    /\ index_lock' = None
    /\ ixt' = [ixt EXCEPT ![t].pc = "idle", ![t].raised = raised,
                          ![t].response.code = 200,
                          ![t].response.results = results]
    /\ UNCHANGED <<system_vars, archive_vars, side_vars, ix_other, ix, ix_stats>>

\* GET /status: get_status reads the document count inside the lock (its test of
\* the crawler connection changes nothing that is modelled)
StatusRequest(t) ==
    /\ ixt[t].pc = "idle"
    /\ LockFree(index_lock)
    /\ ixt' = [ixt EXCEPT ![t] = [IdleIx EXCEPT !.response.code = 200,
                                               !.response.document_count = DocCount(ix)]]
    /\ UNCHANGED <<system_vars, archive_vars, side_vars, ix_other, ix, index_lock, ix_stats>>

-----------------------------------------------------------------------------
(* IndexerNode: seed urls and the pending-seed file *)

\* the seed urls of /submit-url requests
SeedUrls == {"http://a", "ftp://c"}

\* "if not url.startswith(('http://', 'https://')): url = 'http://' + url"
WithScheme(url) == IF StartsWithHttp(url) THEN url ELSE "http://" \o url

\* what a POST to {crawler_api_url}/submit ends in: 200 from a service that has the
\* route, 404 from the master of this repository, whose routes are /assign_task,
\* /submit_result, /heartbeat, /status and /add_urls, or no connection
SubmitAnswers == {"200", "404", "connection_error"}

\* test_crawler_connection: GET /status answers 200
Connected(up) == up

\* the answers a POST can get while the service is up, or down
AnswerPossible(up, answer) == (answer = "connection_error") <=> ~up

\* _store_pending_url: the url is appended as a line
StorePending(file, url) == [exists |-> TRUE, lines |-> Append(file.lines, url)]

\* _count_pending_urls
CountPendingUrls(file) == Len(file.lines)

ix_index == <<ix, index_lock>>

\* POST /submit-url -> submit_seed_url up to the connection test: 400 without a
\* url; with the service unreachable the url is stored and (False, "... saved
\* ...") is returned; otherwise the url gets a scheme and the POST begins
SubmitSeedUrl(t, url) ==
    /\ ixt[t].pc = "idle"
    /\ IF url = ""
       THEN /\ ixt' = [ixt EXCEPT ![t] = [IdleIx EXCEPT !.response.code = 400,
                                                       !.response.message = "URL is required"]]
            /\ UNCHANGED <<pending_urls_file, ix_stats, seeds>>
       ELSE /\ seeds.calls < MaxSeeds
            /\ seeds' = [seeds EXCEPT !.calls = @ + 1]
            /\ IF ~Connected(upstream)
               THEN /\ pending_urls_file' = StorePending(pending_urls_file, url)
                    /\ ix_stats' = [ix_stats EXCEPT !.pending_urls =
                                        CountPendingUrls(pending_urls_file')]
                    /\ ixt' = [ixt EXCEPT ![t] =
                                [IdleIx EXCEPT !.url = url,
                                               !.response.code = 200,
                                               !.response.success = FALSE,
                                               !.response.message = "unavailable, saved"]]
               ELSE /\ ixt' = [ixt EXCEPT ![t] = [IdleIx EXCEPT !.pc = "seed_post",
                                                               !.url = WithScheme(url)]]
                    /\ UNCHANGED <<pending_urls_file, ix_stats>>
    /\ UNCHANGED <<system_vars, archive_vars, side_vars, ix_index, upstream>>

\* submit_seed_url: the POST to /submit ends; 200 counts the url as submitted, every
\* other end stores it as pending
SeedPost(t, answer) ==
    /\ ixt[t].pc = "seed_post"
    /\ AnswerPossible(upstream, answer)
    /\ IF answer = "200"
       THEN /\ Len(seeds.accepted) < MaxAccepted
            /\ seeds' = [seeds EXCEPT !.accepted = Append(@, ixt[t].url)]
            /\ ix_stats' = [ix_stats EXCEPT !.seed_urls_submitted = @ + 1]
            /\ ixt' = [ixt EXCEPT ![t].pc = "idle", ![t].response.code = 200,
                                  ![t].response.success = TRUE,
                                  ![t].response.message = "submitted"]
            /\ UNCHANGED pending_urls_file
       ELSE /\ pending_urls_file' = StorePending(pending_urls_file, ixt[t].url)
            /\ ix_stats' = [ix_stats EXCEPT !.pending_urls =
                                CountPendingUrls(pending_urls_file')]
            /\ ixt' = [ixt EXCEPT ![t].pc = "idle", ![t].response.code = 200,
                                  ![t].response.success = FALSE,
                                  ![t].response.message = "failed, saved"]
            /\ UNCHANGED seeds
    /\ UNCHANGED <<system_vars, archive_vars, side_vars, ix_index, upstream>>

\* retry_pending_urls up to the end of its read: without the file it returns
\* success False, with an empty file success True, otherwise it holds the lines
\* it read
RetryRead(t) ==
    /\ IF ~pending_urls_file.exists
       THEN ixt' = [ixt EXCEPT ![t] = [IdleIx EXCEPT !.response.code = 200,
                                                    !.response.message = "no file"]]
       ELSE IF pending_urls_file.lines = <<>>
       THEN ixt' = [ixt EXCEPT ![t] = [IdleIx EXCEPT !.response.code = 200,
                                                    !.response.success = TRUE,
                                                    !.response.message = "none pending"]]
       ELSE ixt' = [ixt EXCEPT ![t] = [IdleIx EXCEPT !.pc = "retry_post",
                                                    !.read = pending_urls_file.lines,
                                                    !.reachable = Connected(upstream)]]
    /\ UNCHANGED <<system_vars, archive_vars, side_vars, ix_index, upstream, pending_urls_file,
                   ix_stats, seeds>>

\* GET or POST /retry-pending
RetryRequest(t) ==
    /\ ixt[t].pc = "idle"
    /\ RetryRead(t)

\* connection_monitor wakes from its sleep: with the service connected and
\* stats["pending_urls"] > 0 it calls retry_pending_urls (otherwise it sleeps again)
MonitorRound ==
    /\ ixt[MonitorThread].pc = "idle"
    /\ Connected(upstream)
    /\ ix_stats.pending_urls > 0
    /\ RetryRead(MonitorThread)

\* retry_pending_urls posts the next url it read: 200 counts it as submitted, every
\* other end keeps it as failed
RetryPost(t, answer) ==
    /\ ixt[t].pc = "retry_post"
    /\ Len(ixt[t].failed) + ixt[t].submitted < Len(ixt[t].read)
    /\ AnswerPossible(upstream, answer)
    /\ LET url == ixt[t].read[Len(ixt[t].failed) + ixt[t].submitted + 1] IN
        IF answer = "200"
        THEN /\ Len(seeds.accepted) < MaxAccepted
             /\ seeds' = [seeds EXCEPT !.accepted = Append(@, url)]
             /\ ix_stats' = [ix_stats EXCEPT !.seed_urls_submitted = @ + 1]
             /\ ixt' = [ixt EXCEPT ![t].submitted = @ + 1,
                                   ![t].reachable = @ /\ Connected(upstream)]
        ELSE /\ ixt' = [ixt EXCEPT ![t].failed = Append(@, url),
                                   ![t].reachable = @ /\ Connected(upstream)]
             /\ UNCHANGED <<seeds, ix_stats>>
    /\ UNCHANGED <<system_vars, archive_vars, side_vars, ix_index, upstream, pending_urls_file>>

\* the file written with nothing in it
WriteNone(failed) == [exists |-> TRUE, lines |-> <<>>]

\* "with open(self.pending_urls_file, 'w') as f: for url in failed: f.write(...)"
WriteBack(failed) == [exists |-> TRUE, lines |-> failed]

\* retry_pending_urls after its last POST: the file is written anew with the failed
\* urls, and stats["pending_urls"] is their number
RetryWrite(t) ==
    /\ ixt[t].pc = "retry_post"
    /\ Len(ixt[t].failed) + ixt[t].submitted = Len(ixt[t].read)
    /\ pending_urls_file' = WriteBack(ixt[t].failed)
    /\ ix_stats' = [ix_stats EXCEPT !.pending_urls = Len(ixt[t].failed)]
    /\ ixt' = [ixt EXCEPT ![t].pc = "idle", ![t].response.code = 200,
                          ![t].response.success = TRUE,
                          ![t].response.message = "retried"]
    /\ UNCHANGED <<system_vars, archive_vars, side_vars, ix_index, upstream, seeds>>

\* the crawler API comes up or goes down
UpstreamChanges ==
    /\ upstream' = ~upstream
    /\ ixt' = [t \in IxAll |-> [ixt[t] EXCEPT !.reachable = FALSE]]
    /\ UNCHANGED <<system_vars, archive_vars, side_vars, ix_index, pending_urls_file, ix_stats,
                   seeds>>

-----------------------------------------------------------------------------
(* The MPI master and crawler of src/archive *)

\* load_seed_urls without a seed file: the default seed urls
ArchiveSeeds == <<"http://a", "https://b">>

\* "for url in ...: if url not in self.visited_urls: put and add", as in
\* load_seed_urls and in process_crawler_messages
RECURSIVE PutNew(_, _)
PutNew(m, urls) ==
    IF urls = <<>> THEN m
    ELSE IF Head(urls) \in m.visited_urls THEN PutNew(m, Tail(urls))
    ELSE PutNew([m EXCEPT !.task_queue = Append(@, Head(urls)),
                          !.visited_urls = @ \cup {Head(urls)}],
                Tail(urls))

\* the messages a crawler sends to the master for one url: the extracted urls
\* (tag 1) and then a status (tag 99), or after an exception an error (tag 999)
CrawlOutcomes == {"crawled", "failed", "exception"}
CrawlMessages(rank, outcome, links) ==
    << [source |-> rank, tag |-> 1,
        urls |-> IF outcome = "crawled" THEN links ELSE <<>>],
       [source |-> rank, tag |-> IF outcome = "exception" THEN 999 ELSE 99,
        urls |-> <<>>] >>

\* save_state: what is written to crawler_state.json
SavedState(m) ==
    [visited_urls |-> m.visited_urls, queue_size |-> Len(m.task_queue),
     tasks_assigned |-> m.tasks_assigned, tasks_completed |-> m.tasks_completed]

\* run begins: load_seed_urls
MpiLoadSeedUrls ==
    /\ mpi.phase = "start"
    /\ mpi' = [mpi EXCEPT !.master = PutNew(@, ArchiveSeeds), !.phase = "loop"]
    /\ UNCHANGED <<system_vars, indexer_vars, side_vars>>

\* assign_tasks: every idle crawler is sent the head of the queue
MpiAssignTasks ==
    /\ mpi.phase = "loop"
    /\ \E r \in MpiCrawlers :
        /\ mpi.master.crawler_status[r] = "idle"
        /\ mpi.master.task_queue # <<>>
        /\ mpi' = [mpi EXCEPT !.to_crawler[r] = Append(@, Head(mpi.master.task_queue)),
                              !.master.task_queue = Tail(@),
                              !.master.crawler_status[r] = "busy",
                              !.master.tasks_assigned = @ + 1]
    /\ UNCHANGED <<system_vars, indexer_vars, side_vars>>

\* extract_text: the text of a page
ArchiveText(url) == <<"x">>

\* crawler_process receives a url, crawls it and sends its messages to the master
\* and, for a page it fetched, the content (tag 2) to the indexer rank; on the
\* shutdown signal it leaves its loop
MpiCrawl(r, outcome, links) ==
    /\ mpi.to_crawler[r] # <<>>
    /\ LET url_to_crawl == Head(mpi.to_crawler[r]) IN
        IF url_to_crawl = None
        THEN /\ outcome = "failed" /\ links = <<>>
             /\ mpi' = [mpi EXCEPT !.to_crawler[r] = Tail(@)]
             /\ UNCHANGED mpi_indexer
        ELSE /\ outcome = "crawled" \/ links = <<>>
             /\ mpi' = [mpi EXCEPT !.to_crawler[r] = Tail(@),
                                   !.to_master = @ \o CrawlMessages(r, outcome, links)]
             /\ mpi_indexer' =
                    IF outcome = "crawled"
                    THEN [mpi_indexer EXCEPT !.inbox =
                            Append(@, [url |-> url_to_crawl,
                                       content |-> ArchiveText(url_to_crawl)])]
                    ELSE mpi_indexer
    /\ UNCHANGED <<system_vars, indexer_vars, construction, simple_index>>

\* the condition of run's loop: "not self.task_queue.empty() or any(status ==
\* 'busy' ...)"
Running(m) ==
    \/ m.task_queue # <<>>
    \/ \E r \in MpiCrawlers : m.crawler_status[r] = "busy"

\* process_crawler_messages, in a round of run's loop, with a message of a
\* crawler reported by Iprobe: it is received; tag 1 counts a completed task, sets
\* the crawler idle and queues the new urls; tag 999 sets the crawler idle
MpiProcessCrawlerMessages ==
    /\ mpi.phase = "loop"
    /\ Running(mpi.master)
    /\ mpi.to_master # <<>>
    /\ LET msg == Head(mpi.to_master) IN
        mpi' = [mpi EXCEPT
                  !.to_master = Tail(@),
                  !.master = IF msg.tag = 1
                             THEN PutNew([@ EXCEPT !.tasks_completed = @ + 1,
                                                   !.crawler_status[msg.source] = "idle"],
                                         msg.urls)
                             ELSE IF msg.tag = 999
                             THEN [@ EXCEPT !.crawler_status[msg.source] = "idle"]
                             ELSE @]
    /\ UNCHANGED <<system_vars, indexer_vars, side_vars>>

\* save_state, called every save_interval seconds in the loop of run
MpiSaveState ==
    /\ mpi.phase = "loop"
    /\ mpi' = [mpi EXCEPT !.state_file = SavedState(mpi.master), !.saved = TRUE,
                          !.queue_at_save = mpi.master.task_queue]
    /\ UNCHANGED <<system_vars, indexer_vars, side_vars>>

\* run ends: the queue is empty and no crawler is busy; the crawlers are sent the
\* shutdown signal and the state is saved a last time
MpiFinish ==
    /\ mpi.phase = "loop"
    /\ ~Running(mpi.master)
    /\ mpi' = [mpi EXCEPT !.to_crawler = [r \in MpiCrawlers |-> Append(@[r], None)],
                          !.state_file = SavedState(mpi.master), !.saved = TRUE,
                          !.queue_at_save = mpi.master.task_queue,
                          !.phase = "done"]
    /\ UNCHANGED <<system_vars, indexer_vars, side_vars>>

\* the program is started again with crawler_state.json on disk: master_process
\* makes a new MasterNode, and run will load the seed urls
MpiRestart ==
    /\ mpi.saved
    /\ mpi' = [mpi EXCEPT !.master = NewMpi, !.phase = "start",
                          !.to_crawler = [r \in MpiCrawlers |-> <<>>],
                          !.to_master = <<>>]
    /\ mpi_indexer' = NewMpiIndexer
    /\ UNCHANGED <<system_vars, indexer_vars, construction, simple_index>>

-----------------------------------------------------------------------------

(* MasterNode.__init__ called with seed urls *)

\* the seed lists a MasterNode can be given: main() passes --seed-urls, one url
\* or more (by default one), another caller may pass an empty list
ConstructorSeeds == ListsUpTo(Urls, MaxSeedList)

\* the frame of the constructor's steps
not_construction == <<system_vars, indexer_vars, archive_vars, simple_index,
                      mpi_indexer>>

\* MasterNode.__init__ up to "if seed_urls:": the node's attributes, the SQS
\* client and queue urls, and the two empty url sets. self.stats does not exist.
MasterNodeInit(seed_urls, sqs) ==
    /\ construction.pc = "none"
    /\ construction' = [NoConstruction EXCEPT !.pc = "seeds", !.use_sqs = sqs,
                                             !.given = seed_urls,
                                             !.seed_urls = seed_urls]
    /\ UNCHANGED not_construction

\* one round of "for url in seed_urls: if url not in self.seen_urls:
\* self.add_url_to_queue(url); self.seen_urls.add(url)". add_url_to_queue sends
\* the message when use_sqs and then runs self.stats["urls_queued"] += 1, which
\* raises AttributeError while self.stats does not exist.
ConstructorSeed ==
    /\ construction.pc = "seeds"
    /\ construction.seed_urls # <<>>
    /\ LET url == Head(construction.seed_urls) IN
        IF url \in construction.seen_urls
        THEN construction' = [construction EXCEPT !.seed_urls = Tail(@)]
        ELSE IF construction.has_stats
        THEN construction' =
                [construction EXCEPT !.task_queue = SendTask(@, construction.use_sqs, url),
                                     !.urls_queued = @ + 1,
                                     !.seen_urls = @ \cup {url},
                                     !.seed_urls = Tail(@)]
        ELSE construction' =
                [construction EXCEPT !.task_queue = SendTask(@, construction.use_sqs, url),
                                     !.pc = "raised"]
    /\ UNCHANGED not_construction

\* the rest of __init__ after the loop: the task and heartbeat tables and
\* self.stats, with "urls_queued": 0
ConstructorFinish ==
    /\ construction.pc = "seeds"
    /\ construction.seed_urls = <<>>
    /\ construction' = [construction EXCEPT !.pc = "done", !.has_stats = TRUE,
                                            !.urls_queued = 0]
    /\ UNCHANGED not_construction

-----------------------------------------------------------------------------
(* SimpleInMemoryIndex of src/indexer_node.py *)

\* texts, as their runs of word characters, and queries
SimpleTexts == {<<"X">>, <<"x", "y">>, <<"y", "y">>}
SimpleQueries == {<<>>, <<"X">>, <<"x", "y">>}

\* str.lower on a word
Lower(word) == IF word = "X" THEN "x" ELSE word

\* tokenize: "re.findall(r'\w+', text.lower())"
Tokenize(text) == [i \in 1..Len(text) |-> Lower(text[i])]

\* set(tokens)
TokenSet(tokens) == {tokens[i] : i \in 1..Len(tokens)}

\* self.index.get(token, []) and self.index[token] of the defaultdict(list)
PostingList(index, token) == IF token \in DOMAIN index THEN index[token] ELSE <<>>

\* "for token in set(tokens): self.index[token].append(url)"
AppendPostings(index, tokens, url) ==
    [token \in DOMAIN index \cup tokens |->
        IF token \in tokens THEN Append(PostingList(index, token), url)
        ELSE index[token]]

\* the urls of a posting list: set(self.index.get(token, []))
UrlSet(list) == {list[i] : i \in 1..Len(list)}

\* the frame of the in-memory index's steps
not_simple_index == <<system_vars, indexer_vars, archive_vars, construction,
                      mpi_indexer>>

\* add_document: the document stored, and the url appended under its tokens
AddDocument(si, url, content) ==
    [si EXCEPT !.documents = Put(@, url, content),
               !.index = AppendPostings(@, TokenSet(Tokenize(content)), url),
               !.adds = @ + 1]

\* SimpleInMemoryIndex.add_document
SimpleAddDocument(url, content) ==
    /\ simple_index.adds < MaxAdds
    /\ simple_index' = AddDocument(simple_index, url, content)
    /\ UNCHANGED not_simple_index

\* the frame of the indexer rank's steps
not_indexer_rank == <<system_vars, indexer_vars, archive_vars, construction>>

\* indexer_process with a content message waiting: the document is added to the
\* index, and after every ReportEvery documents a status is sent to rank 0
MpiIndexerReceive ==
    /\ mpi_indexer.inbox # <<>>
    /\ LET data == Head(mpi_indexer.inbox)
           docs == mpi_indexer.processed_docs + 1
       IN /\ simple_index' = AddDocument(simple_index, data.url, data.content)
          /\ mpi_indexer' = [mpi_indexer EXCEPT
                                !.inbox = Tail(@),
                                !.processed_docs = docs,
                                !.to_master = IF docs % ReportEvery = 0 THEN @ + 1 ELSE @]
    /\ UNCHANGED not_indexer_rank

\* process_crawler_messages when Iprobe reports a message whose source is not a
\* crawler rank: the message is not received and stays where it is, and the
\* round is over
MpiProbeOther ==
    /\ mpi.phase = "loop"
    /\ Running(mpi.master)
    /\ mpi_indexer.to_master > 0
    /\ mpi_indexer' = [mpi_indexer EXCEPT !.round = 1 - @]
    /\ UNCHANGED <<system_vars, indexer_vars, archive_vars, construction, simple_index>>

\* SimpleInMemoryIndex.search: the urls whose posting lists hold every token of
\* the query, none for a query without tokens
SimpleSearch(query) ==
    /\ LET tokens == Tokenize(query) IN
        simple_index' =
          [simple_index EXCEPT !.result =
              IF tokens = <<>> THEN {}
              ELSE {url \in UrlSet(PostingList(simple_index.index, tokens[1])) :
                       \A i \in 2..Len(tokens) :
                          url \in UrlSet(PostingList(simple_index.index, tokens[i]))}]
    /\ UNCHANGED not_simple_index

-----------------------------------------------------------------------------

\* The running system: the master's request handler and result thread, and the
\* crawlers' loops. The clock stands still, no crawler dies
\* and no client posts to /submit_result.
Next ==
    \/ \E h \in Handlers, urls \in UrlLists : AddUrls(h, urls)
    \/ \E t \in Threads : AdmitSend(t)
    \/ \E t \in Threads : AdmitMark(t)
    \/ \E i \in 1..Len(result_queue) : ProcessSqsResult(i)
    \/ MonitorTasks
    \/ GetStatus
    \/ \E c \in Crawlers : SetupSqs(c)
    \/ \E c \in Crawlers, i \in 1..Len(task_queue) : GetTaskFromSqs(c, i)
    \/ \E c \in Crawlers : GetTaskDirect(c)
    \/ \E c \in Crawlers, success \in BOOLEAN, l \in ExtractedLists :
          CrawlAndSubmit(c, success, l)
    \/ \E c \in Crawlers : SendHeartbeat(c)

Spec == Init /\ [][Next]_vars

\* The system with time passing and crawlers dying, for one url whose page has no
\* links.
OneUrlLists == ListsUpTo({"http://a"}, MaxUrls)

NextFailure ==
    \/ \E h \in Handlers, urls \in OneUrlLists : AddUrls(h, urls)
    \/ \E t \in Threads : AdmitSend(t)
    \/ \E t \in Threads : AdmitMark(t)
    \/ \E i \in 1..Len(result_queue) : ProcessSqsResult(i)
    \/ MonitorTasks
    \/ GetStatus
    \/ \E d \in {TimeStep, VisibilityTimeout} : Tick(d)
    \/ \E c \in Crawlers : SetupSqs(c)
    \/ \E c \in Crawlers, i \in 1..Len(task_queue) : GetTaskFromSqs(c, i)
    \/ \E c \in Crawlers : GetTaskDirect(c)
    \/ \E c \in Crawlers, success \in BOOLEAN : CrawlAndSubmit(c, success, <<>>)
    \/ \E c \in Crawlers : SendHeartbeat(c)
    \/ \E c \in Crawlers : Stop(c)

SpecFailure == Init /\ [][NextFailure]_vars

\* The master's HTTP API without the queues' consumers: add_urls, submit_result,
\* heartbeat and status requests, and crawlers that ask /assign_task for work.
NextHttp ==
    \/ \E h \in Handlers, urls \in UrlLists : AddUrls(h, urls)
    \/ \E t \in Handlers : AdmitSend(t)
    \/ \E t \in Handlers : AdmitMark(t)
    \/ \E task_id \in TaskIds, url \in HttpUrls, success \in BOOLEAN, l \in UrlLists :
          SubmitResult(task_id, url, success, l)
    \/ GetStatus
    \/ \E c \in Crawlers : SetupSqs(c)
    \/ \E c \in Crawlers : GetTaskDirect(c)
    \/ \E c \in Crawlers : SendHeartbeat(c)

SpecHttp == Init /\ [][NextHttp]_vars

\* One crawler at work on the pages of one host, second by second: the master
\* with its result thread, add_urls requests for the host's pages, and every step
\* of crawl_url. (main() of the master lists one crawler node.)
SiteLists == ListsUpTo({"http://a"} \cup PageUrls, MaxUrls)
OneCrawler == {"w1"}

NextCrawl ==
    \/ \E h \in Handlers, urls \in SiteLists : AddUrls(h, urls)
    \/ \E t \in Threads : AdmitSend(t)
    \/ \E t \in Threads : AdmitMark(t)
    \/ \E i \in 1..Len(result_queue) : ProcessSqsResult(i)
    \/ \E c \in OneCrawler : SetupSqs(c)
    \/ \E c \in OneCrawler, i \in 1..Len(task_queue) : GetTaskFromSqs(c, i)
    \/ \E c \in OneCrawler : CanFetch(c)
    \/ \E c \in OneCrawler, outcome \in RobotsOutcomes : RobotsRead(c, outcome)
    \/ \E c \in OneCrawler, outcome \in GetOutcomes, hrefs \in Hrefs, index_ok \in BOOLEAN :
          Get(c, outcome, hrefs, index_ok)
    \/ \E c \in OneCrawler : SubmitCrawlResult(c)
    \/ \E c \in OneCrawler : PauseOver(c)
    \/ TickSecond

SpecCrawl == Init /\ [][NextCrawl]_vars

\* Two crawlers given the pages of one host, up to can_fetch's answer and the
\* result of a disallowed url: the clock stands still, so no politeness sleep ends.
NextRobots ==
    \/ \E h \in Handlers, urls \in SiteLists : AddUrls(h, urls)
    \/ \E t \in Handlers : AdmitSend(t)
    \/ \E t \in Handlers : AdmitMark(t)
    \/ \E c \in Crawlers : SetupSqs(c)
    \/ \E c \in Crawlers, i \in 1..Len(task_queue) : GetTaskFromSqs(c, i)
    \/ \E c \in Crawlers : CanFetch(c)
    \/ \E c \in Crawlers, outcome \in RobotsOutcomes : RobotsRead(c, outcome)
    \/ \E c \in Crawlers : SubmitCrawlResult(c)

SpecRobots == Init /\ [][NextRobots]_vars

\* One crawler on pages with relative hrefs, fragments and redirects: the crawl
\* loop second by second, for pages of host a that may redirect to host b.
LinkHrefs == ListsUpTo(RelHrefs \cup OtherUrls, MaxHrefs)

NextLinks ==
    \/ \E h \in Handlers, urls \in SiteLists : AddUrls(h, urls)
    \/ \E t \in Threads : AdmitSend(t)
    \/ \E t \in Threads : AdmitMark(t)
    \/ \E i \in 1..Len(result_queue) : ProcessSqsResult(i)
    \/ \E c \in OneCrawler : SetupSqs(c)
    \/ \E c \in OneCrawler, i \in 1..Len(task_queue) : GetTaskFromSqs(c, i)
    \/ \E c \in OneCrawler : CanFetch(c)
    \/ \E c \in OneCrawler, outcome \in RobotsOutcomes : RobotsRead(c, outcome)
    \/ \E c \in OneCrawler, outcome \in GetOutcomes, final_url \in HttpUrls \cup PageUrls,
          hrefs \in LinkHrefs :
          GetRedirected(c, outcome, final_url, hrefs, outcome = "200")
    \/ \E c \in OneCrawler : SubmitCrawlResult(c)
    \/ \E c \in OneCrawler : PauseOver(c)
    \/ TickSecond

SpecLinks == Init /\ [][NextLinks]_vars

\* One crawler on the pages of one host over more than an hour: the crawl loop
\* for pages without links, with the clock passing the age at which the host's
\* robots.txt entry expires.
OnePageLists == {<<u>> : u \in {"http://a"} \cup PageUrls}

NextAge ==
    \/ \E h \in Handlers, urls \in OnePageLists : AddUrls(h, urls)
    \/ \E t \in Handlers : AdmitSend(t)
    \/ \E t \in Handlers : AdmitMark(t)
    \/ \E i \in 1..Len(result_queue) : ProcessSqsResult(i)
    \/ \E c \in OneCrawler : SetupSqs(c)
    \/ \E c \in OneCrawler, i \in 1..Len(task_queue) : GetTaskFromSqs(c, i)
    \/ \E c \in OneCrawler : CanFetch(c)
    \/ \E c \in OneCrawler, outcome \in RobotsOutcomes : RobotsRead(c, outcome)
    \/ \E c \in OneCrawler, outcome \in GetOutcomes : Get(c, outcome, <<>>, outcome = "200")
    \/ \E c \in OneCrawler : SubmitCrawlResult(c)
    \/ \E c \in OneCrawler : PauseOver(c)
    \/ TickSecond
    \/ TickAged

SpecAge == Init /\ [][NextAge]_vars

\* The indexer's index under two request threads: /index, /search and /status
\* requests, step by step where a lock or a writer is held.
NextIndex ==
    \/ \E t \in IxThreads, url \in IndexUrls \cup {""}, title \in Titles,
          content \in Contents \cup {{}} : IndexRequest(t, url, title, content)
    \/ \E t \in IxThreads, committed \in BOOLEAN : AddDocumentEnd(t, committed)
    \/ \E t \in IxThreads, query \in Queries, max_results \in MaxValues :
          SearchRequest(t, query, max_results)
    \/ \E t \in IxThreads : SearchAcquire(t)
    \/ \E t \in IxThreads, raised \in BOOLEAN, results \in SUBSET IndexUrls :
          SearchEnd(t, raised, results)
    \/ \E t \in IxThreads : StatusRequest(t)

SpecIndex == Init /\ [][NextIndex]_vars

\* The entry points for urls: add_urls requests to the master and /submit-url
\* requests to the indexer, with urls of any scheme and the crawler API coming
\* and going.
EntryLists == ListsUpTo(SeedUrls, MaxUrls)
OneRequest == {"r1"}

NextEntry ==
    \/ \E h \in Handlers, urls \in EntryLists : AddUrls(h, urls)
    \/ \E t \in Handlers : AdmitSend(t)
    \/ \E t \in Handlers : AdmitMark(t)
    \/ \E t \in OneRequest, url \in SeedUrls \cup {""} : SubmitSeedUrl(t, url)
    \/ \E t \in OneRequest, answer \in SubmitAnswers : SeedPost(t, answer)
    \/ UpstreamChanges

SpecEntry == Init /\ [][NextEntry]_vars

\* The indexer's seed urls: /submit-url and /retry-pending requests of one request
\* thread and the connection monitor, with the crawler API coming and going.
NextSeeds ==
    \/ \E t \in OneRequest, url \in SeedUrls \cup {""} : SubmitSeedUrl(t, url)
    \/ \E t \in OneRequest, answer \in SubmitAnswers : SeedPost(t, answer)
    \/ \E t \in OneRequest : RetryRequest(t)
    \/ MonitorRound
    \/ \E t \in OneRequest \cup {MonitorThread}, answer \in SubmitAnswers :
          RetryPost(t, answer)
    \/ \E t \in OneRequest \cup {MonitorThread} : RetryWrite(t)
    \/ UpstreamChanges

SpecSeeds == Init /\ [][NextSeeds]_vars

\* The MPI program of src/archive: the master's run with one crawler rank, and
\* restarts of the program once a state file is on disk.
ArchiveLinks == ListsUpTo(PageUrls, MaxLinks)

NextArchive ==
    \/ MpiLoadSeedUrls
    \/ MpiAssignTasks
    \/ \E r \in MpiCrawlers, outcome \in CrawlOutcomes, links \in ArchiveLinks :
          MpiCrawl(r, outcome, links)
    \/ MpiProcessCrawlerMessages
    \/ MpiSaveState
    \/ MpiFinish
    \/ MpiRestart

SpecArchive == Init /\ [][NextArchive]_vars

\* One crawler and its heartbeat thread, with the clock in steps of the heartbeat
\* period: the crawl loop with every step of crawl_url for one url, the thread's
\* rounds, delivered or not, and the death of the crawler.
NextHeartbeat ==
    \/ \E h \in Handlers, urls \in OneUrlLists : AddUrls(h, urls)
    \/ \E t \in Handlers : AdmitSend(t)
    \/ \E t \in Handlers : AdmitMark(t)
    \/ \E c \in OneCrawler : SetupSqs(c)
    \/ \E c \in OneCrawler, i \in 1..Len(task_queue) : GetTaskFromSqs(c, i)
    \/ \E c \in OneCrawler : GetTaskDirect(c)
    \/ \E c \in OneCrawler : CanFetch(c)
    \/ \E c \in OneCrawler, outcome \in RobotsOutcomes : RobotsRead(c, outcome)
    \/ \E c \in OneCrawler, outcome \in GetOutcomes : Get(c, outcome, <<>>, outcome = "200")
    \/ \E c \in OneCrawler : SubmitCrawlResult(c)
    \/ \E c \in OneCrawler : PauseOver(c)
    \/ \E c \in OneCrawler, delivered \in BOOLEAN : HeartbeatRound(c, delivered)
    \/ \E c \in OneCrawler : Stop(c)
    \/ Tick(TimeStep)
    \/ GetStatus

SpecHeartbeat == Init /\ [][NextHeartbeat]_vars

\* The master's result thread fed with any result message: any page url and any
\* list of extracted urls.
AnyLinkLists == ListsUpTo(Urls, MaxLinks)

NextResults ==
    \/ AdmitSend(SqsThread)
    \/ AdmitMark(SqsThread)
    \/ \E c \in OneCrawler, url \in HttpUrls, success \in BOOLEAN, l \in AnyLinkLists :
          ResultArrives(c, url, success, l)
    \/ \E i \in 1..Len(result_queue) : ProcessSqsResult(i)
    \/ GetStatus

SpecResults == Init /\ [][NextResults]_vars

\* The run loop of one crawler and the master's result thread, with the loops
\* that never end on their own taking their steps: the crawler reaches its
\* submit_result, and process_sqs_results receives what is in crawler-results
\* and finishes the loop over a result's links.
PageHrefs == ListsUpTo(PageUrls, MaxHrefs)
UndelayedOutcomes == {outcome \in RobotsOutcomes : outcome.crawl_delay = 0}

NextRun ==
    \/ \E h \in Handlers, urls \in OnePageLists : AddUrls(h, urls)
    \/ \E t \in Threads : AdmitSend(t)
    \/ \E t \in Threads : AdmitMark(t)
    \/ \E i \in 1..Len(result_queue) : ProcessSqsResult(i)
    \/ \E c \in OneCrawler : SetupSqs(c)
    \/ \E c \in OneCrawler, i \in 1..Len(task_queue) : GetTaskFromSqs(c, i)
    \/ \E c \in OneCrawler : CanFetch(c)
    \/ \E c \in OneCrawler, outcome \in UndelayedOutcomes : RobotsRead(c, outcome)
    \/ \E c \in OneCrawler, outcome \in GetOutcomes, hrefs \in PageHrefs :
          Get(c, outcome, hrefs, outcome = "200")
    \/ \E c \in OneCrawler : SubmitCrawlResult(c)
    \/ \E c \in OneCrawler : PauseOver(c)
    \/ TickSecond

SpecRun ==
    /\ Init /\ [][NextRun]_vars
    /\ WF_vars(\E c \in OneCrawler : SubmitCrawlResult(c))
    /\ WF_vars(\E i \in 1..Len(result_queue) : ProcessSqsResult(i))
    /\ WF_vars(AdmitSend(SqsThread))
    /\ WF_vars(AdmitMark(SqsThread))

\* The MPI program on a site of ten pages: the seed urls and a chain of eight
\* pages behind the first, each page linking to the next. The master's loop, the
\* crawler rank and the indexer rank all keep taking their steps; which waiting
\* message Iprobe reports to the master is open.
ChainPages == <<"http://a/1", "http://a/2", "http://a/3", "http://a/4",
                "http://a/5", "http://a/6", "http://a/7", "http://a/8">>
ChainLinks(url) ==
    IF url = ArchiveSeeds[1] THEN <<ChainPages[1]>>
    ELSE IF \E i \in 1..(Len(ChainPages) - 1) : ChainPages[i] = url
    THEN <<ChainPages[(CHOOSE i \in 1..(Len(ChainPages) - 1) : ChainPages[i] = url) + 1]>>
    ELSE <<>>

ChainCrawl ==
    \E r \in MpiCrawlers, outcome \in {"crawled", "failed"} :
        /\ mpi.to_crawler[r] # <<>>
        /\ MpiCrawl(r, outcome, IF outcome = "crawled"
                                THEN ChainLinks(Head(mpi.to_crawler[r])) ELSE <<>>)

MasterRun ==
    \/ MpiLoadSeedUrls
    \/ MpiAssignTasks
    \/ MpiProcessCrawlerMessages
    \/ MpiProbeOther
    \/ MpiFinish

NextTermination ==
    \/ MasterRun
    \/ ChainCrawl
    \/ MpiIndexerReceive

SpecTermination ==
    /\ Init /\ [][NextTermination]_vars
    /\ WF_vars(MasterRun)
    /\ WF_vars(ChainCrawl)
    /\ WF_vars(MpiIndexerReceive)

\* The construction of a MasterNode with any list of seed urls, with and without
\* SQS.
NextConstructor ==
    \/ \E seed_urls \in ConstructorSeeds, sqs \in BOOLEAN : MasterNodeInit(seed_urls, sqs)
    \/ ConstructorSeed
    \/ ConstructorFinish

SpecConstructor == Init /\ [][NextConstructor]_vars

\* The in-memory index of the MPI indexer: documents added for two urls, and
\* searches.
NextSimpleIndex ==
    \/ \E url \in HttpUrls, content \in SimpleTexts : SimpleAddDocument(url, content)
    \/ \E query \in SimpleQueries : SimpleSearch(query)

SpecSimpleIndex == Init /\ [][NextSimpleIndex]_vars

-----------------------------------------------------------------------------
(* The claims *)

\* the crawlers that hold url u as their task
Holders(u) == {c \in Crawlers : crawler[c].url = u}

\* C1: every url has at most one pending entry in the task queue and is held in
\* flight by at most one crawler, in every reachable state.
C1_OnePendingOneInFlight ==
    \A u \in Urls : Count(u, task_queue) <= 1 /\ Cardinality(Holders(u)) <= 1

\* C2: a url is in seen_urls before it is in the task queue: in no reachable state
\* is a url queued and not seen.
C2_SeenBeforeQueued ==
    \A u \in Urls : InSeq(u, task_queue) => u \in seen_urls

\* C3: of the concurrent admissions of one url exactly one enqueues it, so once
\* every admission loop has ended urls_queued has grown by one for each admitted url.
C3_OneAdmissionWins ==
    (\A t \in Threads : adm[t].pc = "idle") => stats.urls_queued = Cardinality(seen_urls)

\* C4: a url that a crawler holds is not handed to a second crawler.
C4_NoSecondHandOut ==
    [][\A c \in Crawlers, i \in 1..Len(task_queue) :
          GetTaskFromSqs(c, i) => Holders(task_queue[i]) = {}]_vars

\* C5: when the master processes a failure result for a url that has been
\* attempted fewer than 3 times, the url is put back at the tail of the task queue.
C5_FailureRequeued ==
    [][\A i \in 1..Len(result_queue) :
          (/\ ProcessSqsResult(i)
           /\ ~result_queue[i].success
           /\ dispatched[result_queue[i].url] < 3)
          => (/\ task_queue' # <<>>
              /\ task_queue'[Len(task_queue')] = result_queue[i].url)]_vars

\* C6: a failing url is attempted 3 times before it is terminal: the failed counter
\* goes up for a url only with the failure of its third attempt.
C6_FailedAfterThreeAttempts ==
    [][\A i \in 1..Len(result_queue) :
          (/\ ProcessSqsResult(i)
           /\ ~result_queue[i].success
           /\ stats'.urls_failed = stats.urls_failed + 1)
          => dispatched[result_queue[i].url] = 3]_vars

\* crawler c has stopped while holding a task, and its last heartbeat is older
\* than the timeout
DeadWithTask(c) ==
    /\ crawler[c].pc = "stopped"
    /\ crawler[c].url # None
    /\ c \in DOMAIN crawler_heartbeats
    /\ ~Alive(crawler_heartbeats[c], now)

\* C7: once a crawler that stopped with url u has a heartbeat older than the
\* timeout, the master's health check reclaims u: after the check u is back in
\* the task queue for another crawler.
C7_DeadCrawlerTaskReclaimed ==
    [][\A c \in Crawlers :
          (CheckCrawlerHealth /\ DeadWithTask(c)) => InSeq(crawler[c].url, task_queue')]_vars

\* C8: a task in flight whose deadline (the queue's visibility timeout after it
\* was taken) has passed is, after one run of the monitor, completed or back in
\* the task queue.
C8_ExpiredTaskSwept ==
    [][\A c \in Crawlers :
          (/\ MonitorTasks
           /\ crawler[c].url # None
           /\ now > crawler[c].taken_at + VisibilityTimeout)
          => (crawler'[c].url = None \/ InSeq(crawler[c].url, task_queue'))]_vars

\* C9: at most one success is recorded for each url: urls_crawled never exceeds
\* the number of visited urls.
C9_OneSuccessPerUrl == stats.urls_crawled <= Cardinality(visited_urls)

C11_UnknownTaskIgnored ==
    [][\A task_id \in TaskIds, url \in HttpUrls, success \in BOOLEAN, l \in UrlLists :
          (SubmitResult(task_id, url, success, l) /\ task_id \notin active_tasks)
          => (/\ UNCHANGED <<visited_urls, seen_urls, task_queue, active_tasks>>
              /\ stats'.urls_crawled = stats.urls_crawled
              /\ stats'.urls_failed = stats.urls_failed)]_vars

\* a success result with a new link, under a task id the master does not know, has
\* been served
C11_Witness ==
    /\ last_submit.task_id \in TaskIds \ active_tasks
    /\ last_submit.success
    /\ last_submit.extracted_urls # <<>>
    /\ last_submit.url \notin visited_urls

\* C12: /assign_task answers no_task only when no admitted url waits to be handed
\* out: when a master without SQS answers a crawler's poll with no_task, every url
\* in seen_urls has been handed to a crawler.
C12_NoTaskOnlyWhenNonePending ==
    [][\A c \in Crawlers :
          (GetTaskDirect(c) /\ ~use_sqs) => \A u \in seen_urls : dispatched[u] > 0]_vars

\* C13: urls are handed out in the order they were queued: the entry a crawler
\* receives has no older entry of another url waiting before it in the task queue.
C13_FifoDispatch ==
    [][\A c \in Crawlers, i \in 1..Len(task_queue) :
          GetTaskFromSqs(c, i) => \A j \in 1..(i - 1) : task_queue[j] = task_queue[i]]_vars

\* C14: the count check_crawler_health stores in stats.active_crawlers is the number
\* of registered crawlers whose last heartbeat is at most timeout seconds old.
C14_AliveWithinTimeout ==
    [][CheckCrawlerHealth =>
          stats'.active_crawlers =
              Cardinality({c \in DOMAIN crawler_heartbeats :
                              now - crawler_heartbeats[c] <= timeout})]_vars

\* the health check has counted one crawler alive while one heartbeat is exactly
\* timeout seconds old and another is older
C14_Witness ==
    /\ stats.active_crawlers = 1
    /\ \E c, d \in DOMAIN crawler_heartbeats :
          /\ now - crawler_heartbeats[c] = timeout
          /\ now - crawler_heartbeats[d] > timeout

\* C15: while a crawler runs, its heartbeat thread goes on: it has not ended, also
\* after a failed send; each round is due 30 seconds after the one before; and a
\* round that is due can be taken wherever the crawl loop is.
C15_HeartbeatKeepsFiring ==
    \A c \in OneCrawler :
        crawler[c].pc # "stopped"
        => (/\ heartbeat[c].alive
            /\ heartbeat[c].sent => heartbeat[c].wake_at = heartbeat[c].sent_at + 30
            /\ now >= heartbeat[c].wake_at
                  => ENABLED (\E delivered \in BOOLEAN : HeartbeatRound(c, delivered)))

\* a heartbeat has been delivered in a round 30 seconds after a failed one, while
\* the crawl loop was in the politeness sleep or the GET of crawl_url
C15_Witness ==
    \E c \in OneCrawler :
        /\ heartbeat[c].delivered
        /\ heartbeat[c].after_failure
        /\ heartbeat[c].during = "fetch"
        /\ c \in DOMAIN crawler_heartbeats
        /\ crawler_heartbeats[c] = heartbeat[c].sent_at
        /\ heartbeat[c].sent_at >= HeartbeatSleep

C17_RobotsFailureAllowedDelay3 ==
    \A c \in Crawlers :
        fetch[c].refresh \in {"error", "http5xx"}
        => (fetch[c].allowed /\ fetch[c].delay = 3)

\* the delay C18 asks for: the Crawl-delay of the host's robots.txt, at least 1
\* second, and 1 second when it has none
DelayFor(cache, domain) ==
    IF domain \in DOMAIN cache /\ cache[domain].crawl_delay > 1
    THEN cache[domain].crawl_delay
    ELSE 1

\* C18: a crawler's GET to a host comes at least the host's delay after the
\* crawler's previous GET to that host.
C18_PolitenessInterval ==
    [][\A c \in Crawlers, outcome \in GetOutcomes, hrefs \in Hrefs, index_ok \in BOOLEAN :
          (Get(c, outcome, hrefs, index_ok) /\ Host(crawler[c].url) \in DOMAIN last_get[c])
          => now - last_get[c][Host(crawler[c].url)]
                 >= DelayFor(robots_cache[c], Host(crawler[c].url))]_vars

\* C19: no two callers of can_fetch fetch the robots.txt of one host at the same
\* time.
C19_OneRobotsRefreshPerHost ==
    \A c1, c2 \in Crawlers :
        (/\ c1 # c2
         /\ crawler[c1].pc = "robots_read"
         /\ crawler[c2].pc = "robots_read")
        => Host(crawler[c1].url) # Host(crawler[c2].url)

\* C20: no url whose scheme is not http or https is in seen_urls or in the task
\* queue, whatever the results the master processes carry.
C20_OnlyHttpLinksAdmitted ==
    \A u \in Urls :
        (u \in seen_urls \/ InSeq(u, task_queue)) => StartsWithHttp(u)

\* the index holds a document with this url, title and content
HoldsDocument(docs, url, title, content) ==
    \E i \in 1..Len(docs) :
        docs[i].url = url /\ docs[i].title = title /\ docs[i].content = content

\* C22: add_document of a document the index already holds, with the same url, title
\* and content, leaves one record for the url, the same posting lists and the
\* same document count.
C22_IndexingTwiceIsIndexingOnce ==
    [][\A t \in IxThreads :
          (AddDocumentEnd(t, TRUE)
           /\ HoldsDocument(ix, ixt[t].url, ixt[t].title, ixt[t].content))
          => /\ Count(ixt[t].url, [i \in 1..Len(ix') |-> ix'[i].url]) = 1
             /\ Postings(ix') = Postings(ix)
             /\ DocCount(ix') = DocCount(ix)]_vars

\* two requests have indexed the same document, and both were committed
C22_Witness ==
    /\ ix_stats.pages_indexed = 2
    /\ \A t \in IxThreads : ixt[t].pc = "idle" /\ ixt[t].response.success
    /\ ixt["r1"].url = ixt["r2"].url
    /\ ixt["r1"].title = ixt["r2"].title
    /\ ixt["r1"].content = ixt["r2"].content
    /\ DocCount(ix) = 1

\* a thread of the indexer holds an open writer
Writing(t) == ixt[t].pc = "writing"

\* C23: a search that has reached the index can enter it also while add_document
\* holds the lock with its writer open.
C23_SearchNeverWaitsForWriter ==
    \A t \in IxThreads :
        (ixt[t].pc = "search_wait" /\ \E w \in IxThreads : Writing(w))
        => ENABLED SearchAcquire(t)

\* C24: at most one add_document has its writer open; a search or a status read is
\* inside the index only while no writer is open; an add_document that fails
\* leaves the committed documents as they were.
C24_WritesSerializedAndAtomic ==
    [][/\ Cardinality({t \in IxThreads : ixt'[t].pc = "writing"}) <= 1
       /\ \A t \in IxThreads :
            /\ ixt'[t].pc = "searching" => ~ \E w \in IxThreads : ixt'[w].pc = "writing"
            /\ StatusRequest(t) => ~ \E w \in IxThreads : Writing(w)
            /\ AddDocumentEnd(t, FALSE) => ix' = ix]_vars

\* an add_document has failed with a document committed before it, while the
\* other thread waits to search
C24_Witness ==
    \E t \in IxThreads, s \in IxThreads :
        /\ ixt[t].pc = "idle" /\ ixt[t].url \in IndexUrls
        /\ ixt[t].response.code = 200 /\ ~ixt[t].response.success
        /\ DocCount(ix) = 1
        /\ ixt[s].pc = "searching"

\* C28: a search whose query raised in the parser is answered with a 400-class
\* status.
C28_UnparsableQueryGets400 ==
    \A t \in IxThreads :
        (ixt[t].pc = "idle" /\ ixt[t].raised) => ixt[t].response.code \in 400..499

\* the urls a seed can be stored or admitted as
EntryUrls == Urls \cup PrefixedUrls

\* C21: no url without http or https scheme that was given to add_urls or to
\* submit_seed_url is in seen_urls, in the task queue or in the pending-seed file.
C21_NonHttpSeedRejected ==
    \A u \in EntryUrls :
        (\/ u \in seen_urls
         \/ InSeq(u, task_queue)
         \/ InSeq(u, pending_urls_file.lines)) => StartsWithHttp(u)

\* C25: submit_seed_url with the crawler API unreachable appends the url once to
\* the pending-seed file and tells the caller that the seed was accepted.
C25_UnreachableSeedDeferred ==
    [][\A t \in IxThreads, url \in SeedUrls :
          (SubmitSeedUrl(t, url) /\ ~Connected(upstream))
          => /\ Count(url, pending_urls_file'.lines)
                  = Count(url, pending_urls_file.lines) + 1
             /\ ixt'[t].response.success]_vars

\* C26: a round of the connection monitor during which the crawler API was
\* reachable leaves the pending-seed file empty, with every url it read posted
\* and accepted once and admitted to the master's frontier.
C26_MonitorDrainsPending ==
    [][(RetryWrite(MonitorThread) /\ ixt[MonitorThread].reachable)
          => /\ pending_urls_file'.lines = <<>>
             /\ \A i \in 1..Len(ixt[MonitorThread].read) :
                   /\ Count(ixt[MonitorThread].read[i], seeds'.accepted) = 1
                   /\ ixt[MonitorThread].read[i] \in seen_urls']_vars

\* C27: when the program is started again after save_state, the master has the
\* saved set of seen urls and the queue it had when it saved, in the same order.
C27_SaveReloadKeepsFrontier ==
    [][(MpiLoadSeedUrls /\ mpi.saved)
          => /\ mpi'.master.visited_urls = mpi.state_file.visited_urls
             /\ mpi'.master.task_queue = mpi.queue_at_save]_vars

\* the links of a page whose hrefs are resolved against final_url
ResolvedLinks(final_url, hrefs) ==
    {RemoveFragment(UrlJoin(final_url, hrefs[i])) : i \in 1..Len(hrefs)}

\* C29: every link crawl_url returns is an href of the page resolved against the
\* url the GET ended at after redirects, without fragment and with scheme http
\* or https.
C29_LinksResolvedAgainstFinalUrl ==
    [][\A c \in OneCrawler, final_url \in HttpUrls \cup PageUrls, hrefs \in LinkHrefs :
          GetRedirected(c, "200", final_url, hrefs, TRUE)
          => \A i \in 1..Len(fetch'[c].ret.extracted_urls) :
                /\ fetch'[c].ret.extracted_urls[i] \in ResolvedLinks(final_url, hrefs)
                /\ fetch'[c].ret.extracted_urls[i] \notin FragmentUrls
                /\ StartsWithHttp(fetch'[c].ret.extracted_urls[i])]_vars

\* the age of the entry of a host in a crawler's robots cache
EntryAge(c, domain, current_time) == current_time - robots_cache[c][domain].timestamp

C33_NoPendingSeedLost ==
    [][\A t \in IxAll :
          RetryWrite(t)
          => \A i \in 1..Len(pending_urls_file.lines) :
                LET u == pending_urls_file.lines[i] IN
                \/ InSeq(u, pending_urls_file'.lines)
                \/ Count(u, ixt[t].read) > Count(u, ixt[t].failed)]_vars

\* C34: a retry_pending_urls run during which nobody else wrote the file keeps
\* each url it posts as failed unless the answer is 200, in the order read, and
\* ends with exactly these urls in the file, with submitted and failed counts
\* that sum to the number of urls read and stats.pending_urls the failed count.
C34_RetryKeepsExactlyTheFailed ==
    [][\A t \in IxAll :
          /\ \A answer \in SubmitAnswers :
                RetryPost(t, answer)
                => LET url == ixt[t].read[Len(ixt[t].failed) + ixt[t].submitted + 1] IN
                   /\ ixt'[t].failed = IF answer = "200" THEN ixt[t].failed
                                       ELSE Append(ixt[t].failed, url)
                   /\ ixt'[t].submitted = IF answer = "200" THEN ixt[t].submitted + 1
                                          ELSE ixt[t].submitted
                   /\ ixt'[t].read = ixt[t].read
          /\ (RetryWrite(t) /\ pending_urls_file.lines = ixt[t].read)
             => /\ pending_urls_file'.lines = ixt[t].failed
                /\ ixt'[t].submitted + Len(ixt'[t].failed) = Len(ixt[t].read)
                /\ ixt'[t].failed = ixt[t].failed
                /\ ix_stats'.pending_urls = Len(ixt[t].failed)]_vars

\* a retry that read two urls has written back the one that was refused and
\* has had the other accepted
C34_Witness ==
    \E t \in IxAll :
        /\ ixt[t].pc = "idle"
        /\ ixt[t].response.message = "retried"
        /\ Len(ixt[t].read) = 2
        /\ ixt[t].submitted = 1
        /\ Len(ixt[t].failed) = 1
        /\ pending_urls_file.lines = ixt[t].failed
        /\ ix_stats.pending_urls = 1

\* C35: every url the master records as visited has a document in the index.
C35_VisitedUrlsAreIndexed ==
    \A url \in visited_urls : url \in indexer_docs

\* C36: when can_fetch answers for a url, and the rules the cache then holds for
\* the url's host do not allow it, the answer is False, also when the entry has
\* expired and the fetch of robots.txt raised.
C36_CachedDisallowNeverAllowed ==
    [][\A c \in Crawlers :
          LET domain == Host(crawler[c].url) IN
          (/\ crawler[c].pc \in {"crawl", "robots_read"}
           /\ crawler'[c].pc \in {"fetch", "submit"}
           /\ domain \in DOMAIN robots_cache'[c]
           /\ ~ParserCanFetch(robots_cache'[c][domain].rules))
          => ~fetch'[c].allowed]_vars

\* C40: no step of the master removes a url from seen_urls or from visited_urls,
\* and visited_urls changes only when a result with success is handled, by
\* process_sqs_results or by process_crawl_result.
C40_SeenAndVisitedOnlyGrow ==
    [][/\ seen_urls \subseteq seen_urls'
       /\ visited_urls \subseteq visited_urls'
       /\ visited_urls' # visited_urls
          => \/ \E i \in 1..Len(result_queue) :
                   result_queue[i].success /\ ProcessSqsResult(i)
             \/ \E task_id \in active_tasks, url \in Urls, l \in ExtractedLists :
                   ProcessCrawlResult(task_id, url, TRUE, l)]_vars

\* two results with success have been handled, and both urls are visited
C40_Witness ==
    /\ Cardinality(visited_urls) = 2
    /\ stats.urls_crawled = 2
    /\ visited_urls \subseteq seen_urls

\* C31: in the in-memory index each posting list holds a url at most once, and
\* only under terms of the content the url was last added with.
C31_PostingsFollowLatestContent ==
    \A token \in DOMAIN simple_index.index :
        \A url \in UrlSet(simple_index.index[token]) :
            /\ Count(url, simple_index.index[token]) = 1
            /\ url \in DOMAIN simple_index.documents
            /\ token \in TokenSet(Tokenize(simple_index.documents[url]))

\* C32: the construction of a MasterNode with seed urls does not raise, and
\* when it is done every seed is in seen_urls, was sent to the task queue once
\* (with SQS), and stats.urls_queued is the number of distinct seeds.
C32_ConstructorAdmitsSeeds ==
    /\ construction.pc # "raised"
    /\ construction.pc = "done"
       => /\ \A i \in 1..Len(construction.given) :
                /\ construction.given[i] \in construction.seen_urls
                /\ construction.use_sqs
                   => Count(construction.given[i], construction.task_queue) = 1
          /\ construction.urls_queued
                = Cardinality({construction.given[i] : i \in 1..Len(construction.given)})

\* the tasks the crawlers have obtained, and the results the master has recorded
RECURSIVE SumOf(_, _)
SumOf(f, S) == IF S = {} THEN 0 ELSE LET x == CHOOSE y \in S : TRUE
                                     IN f[x] + SumOf(f, S \ {x})
Taken == SumOf(dispatched, DOMAIN dispatched)
Recorded == stats.urls_crawled + stats.urls_failed

Outstanding(r) ==
    Cardinality({i \in 1..Len(mpi.to_crawler[r]) : mpi.to_crawler[r][i] # None})
    + Cardinality({i \in 1..Len(mpi.to_master) :
                      mpi.to_master[i].source = r /\ mpi.to_master[i].tag = 1})

\* C38: in the MPI master tasks_completed never exceeds tasks_assigned, and a
\* crawler marked idle has no outstanding task.
C38_IdleCrawlerHasNoTask ==
    /\ mpi.master.tasks_completed <= mpi.master.tasks_assigned
    /\ \A r \in MpiCrawlers :
          mpi.master.crawler_status[r] = "idle" => Outstanding(r) = 0

\* C39: the run of the MPI master ends; every completion message a crawler has
\* sent is received by the master, also while a status message of the indexer
\* rank waits; and after the run has ended every crawler takes its shutdown
\* signal.
C39_RunTerminates ==
    /\ <>(mpi.phase = "done")
    /\ \A r \in MpiCrawlers :
          (\E i \in 1..Len(mpi.to_master) :
              mpi.to_master[i].source = r /\ mpi.to_master[i].tag = 1)
          ~> (\A i \in 1..Len(mpi.to_master) :
                 ~(mpi.to_master[i].source = r /\ mpi.to_master[i].tag = 1))
    /\ \A r \in MpiCrawlers :
          (mpi.phase = "done") ~> (mpi.to_crawler[r] = <<>>)

====
